---- MODULE Spec2Model ----
(***************************************************************************)
(* A model of kartograff13/bank_fixtures: the date-window helpers of       *)
(* src/utils.py, the analytic services of src/services.py and the report   *)
(* functions (with their persistence decorator) of src/reports.py.         *)
(*                                                                         *)
(* Conventions of the model                                                *)
(*   - A datetime is a record [ord, sec]: the ordinal day (Python's        *)
(*     date.toordinal(), day 1 = 0001-01-01) and the second of the day.    *)
(*   - A float is a record [nan, v]: v is an integer number of 1/Scale     *)
(*     currency units, so that 0.01 * |amount| and amounts with two        *)
(*     decimals are exact; nan = TRUE is the float NaN.  Binary floating   *)
(*     point rounding is not modelled.                                     *)
(*   - A Python str that the code parses is a sequence of one-character    *)
(*     strings.                                                            *)
(***************************************************************************)
EXTENDS Integers, Sequences, FiniteSets, TLC

VARIABLES
    data,           \* list[dict]: the records handed to the service functions
    transactions,   \* pd.DataFrame: the rows handed to reports / date filter
    hasDateColumn,  \* whether the DataFrame has a "Дата операции" column
    disk,           \* the report files: file name -> stored JSON value
    hashSeed,       \* the running interpreter's string-hash seed
    ret             \* the last call: function, arguments, returned value

vars == <<data, transactions, hasDateColumn, disk, hashSeed, ret>>

(***************************************************************************)
(* Bounds of the model.                                                    *)
(***************************************************************************)
MaxData == 2
MaxRows == 2

(***************************************************************************)
(* Fixed-point money.                                                      *)
(***************************************************************************)
Scale == 100 * 100
Fl(n) == [nan |-> FALSE, v |-> n]

NaN == [nan |-> TRUE, v |-> 0]

Abs(x) == IF x < 0 THEN -x ELSE x

FloorDiv(a, b) == a \div b

(***************************************************************************)
(* The proleptic Gregorian calendar of datetime (date.toordinal,           *)
(* date.fromordinal, date.weekday, datetime.replace, timedelta).           *)
(***************************************************************************)
SecondsPerDay == 24 * 60 * 60

IsLeap(y) == (y % 4 = 0 /\ y % 100 # 0) \/ y % 400 = 0

DaysBeforeMonthTable == <<0, 31, 59, 90, 120, 151, 181, 212, 243, 273, 304, 334>>

DaysInMonthTable == <<31, 28, 31, 30, 31, 30, 31, 31, 30, 31, 30, 31>>

DaysInMonth(y, m) == IF m = 2 /\ IsLeap(y) THEN 29 ELSE DaysInMonthTable[m]

DaysBeforeYear(y) ==
    LET p == y - 1 IN p * 365 + p \div 4 - p \div 100 + p \div 400

DaysBeforeMonth(y, m) ==
    DaysBeforeMonthTable[m] + (IF m > 2 /\ IsLeap(y) THEN 1 ELSE 0)

ValidYMD(y, m, d) ==
    /\ y \in 1..9999
    /\ m \in 1..12
    /\ d >= 1
    /\ d <= DaysInMonth(y, m)

Ymd2Ord(y, m, d) == DaysBeforeYear(y) + DaysBeforeMonth(y, m) + d

\* datetime(y, m, d, 0, 0, 0) plus s seconds
MkDatetime(y, m, d, s) == [ord |-> Ymd2Ord(y, m, d), sec |-> s]

OrdOf(dt) == dt.ord

SecOf(dt) == dt.sec

\* a <= b and a >= b on datetimes
DtLe(a, b) == a.ord < b.ord \/ (a.ord = b.ord /\ a.sec <= b.sec)

DtGe(a, b) == DtLe(b, a)

\* date.fromordinal: the civil date <<year, month, day>> of an ordinal
Ord2Ymd(ord) ==
    LET n0   == ord - 1
        n400 == n0 \div 146097
        r400 == n0 % 146097
        n100 == r400 \div 36524
        r100 == r400 % 36524
        n4   == r100 \div 1461
        r4   == r100 % 1461
        n1   == r4 \div 365
        n    == r4 % 365
        year == n400 * 400 + 1 + n100 * 100 + n4 * 4 + n1
    IN  IF n1 = 4 \/ n100 = 4
        THEN <<year - 1, 12, 31>>
        ELSE LET m0   == (n + 50) \div 32
                 pre0 == DaysBeforeMonth(year, m0)
                 m    == IF pre0 > n THEN m0 - 1 ELSE m0
                 pre  == IF pre0 > n THEN DaysBeforeMonth(year, m0 - 1) ELSE pre0
             IN  <<year, m, n - pre + 1>>

YearOf(dt) == Ord2Ymd(OrdOf(dt))[1]

MonthOf(dt) == Ord2Ymd(OrdOf(dt))[2]

DayOf(dt) == Ord2Ymd(OrdOf(dt))[3]

\* date.weekday(): Monday = 0 ... Sunday = 6
Weekday(dt) == (OrdOf(dt) + 6) % 7

\* dt + timedelta(days = n)
PlusDays(dt, n) == [ord |-> dt.ord + n, sec |-> dt.sec]

\* mutant of ReplaceDay1: the time of day is reset to midnight
ReplaceDay1_Midnight(dt) ==
    MkDatetime(YearOf(dt), MonthOf(dt), 1, 0)

\* dt.replace(day = 1)
ReplaceDay1(dt) ==
    MkDatetime(YearOf(dt), MonthOf(dt), 1, SecOf(dt))

\* dt.replace(month = 1, day = 1)
ReplaceMonthDay1(dt) ==
    MkDatetime(YearOf(dt), 1, 1, SecOf(dt))

(***************************************************************************)
(* Strings as sequences of characters, and the parsers the code applies.   *)
(***************************************************************************)
DigitChars == <<"0", "1", "2", "3", "4", "5", "6", "7", "8", "9">>

IsDigit(c) == \E i \in 1..10 : DigitChars[i] = c

DigitVal(c) == (CHOOSE i \in 1..10 : DigitChars[i] = c) - 1

AllDigits(s) == \A i \in 1..Len(s) : IsDigit(s[i])

RECURSIVE DigitsVal(_)
DigitsVal(s) ==
    IF s = <<>> THEN 0
    ELSE DigitsVal(SubSeq(s, 1, Len(s) - 1)) * 10 + DigitVal(s[Len(s)])

\* str.replace(old, new) for one-character old; new is a sequence (maybe empty)
RECURSIVE ReplaceChar(_, _, _)
ReplaceChar(s, old, new) ==
    IF s = <<>> THEN <<>>
    ELSE (IF Head(s) = old THEN new ELSE <<Head(s)>>)
            \o ReplaceChar(Tail(s), old, new)

\* position of the first occurrence of character c in s, 0 when absent
FirstIndex(s, c) ==
    IF \E i \in 1..Len(s) : s[i] = c
    THEN CHOOSE i \in 1..Len(s) : s[i] = c /\ \A j \in 1..(i - 1) : s[j] # c
    ELSE 0

\* str.split(sep) for a one-character separator
RECURSIVE Split(_, _)
Split(s, sep) ==
    LET i == FirstIndex(s, sep)
    IN  IF i = 0 THEN <<s>>
        ELSE <<SubSeq(s, 1, i - 1)>> \o Split(SubSeq(s, i + 1, Len(s)), sep)

StripSign(s) ==
    IF s # <<>> /\ s[1] \in {"-", "+"} THEN Tail(s) ELSE s

SignOf(s) == IF s # <<>> /\ s[1] = "-" THEN -1 ELSE 1

\* int(s): an optional sign and at least one digit; anything else is ValueError
IntParses(s) ==
    LET body == StripSign(s) IN body # <<>> /\ AllDigits(body)

IntValue(s) == SignOf(s) * DigitsVal(StripSign(s))

\* the first four fraction digits as 1/Scale units
FracVal(f) ==
    LET padded == SubSeq(f \o <<"0", "0", "0", "0">>, 1, 4) IN DigitsVal(padded)

\* float(s) for decimal literals and "nan": [ok, val]; ok = FALSE is ValueError
ParseFloat(s) ==
    LET body == StripSign(s)
        dot  == FirstIndex(body, ".")
        ip   == IF dot = 0 THEN body ELSE SubSeq(body, 1, dot - 1)
        fp   == IF dot = 0 THEN <<>> ELSE SubSeq(body, dot + 1, Len(body))
    IN  IF body = <<"n", "a", "n">>
        THEN [ok |-> TRUE, val |-> NaN]
        ELSE IF AllDigits(ip) /\ AllDigits(fp) /\ Len(ip) + Len(fp) > 0
        THEN [ok |-> TRUE,
              val |-> Fl(SignOf(s) * (DigitsVal(ip) * Scale + FracVal(fp)))]
        ELSE [ok |-> FALSE, val |-> Fl(0)]

(***************************************************************************)
(* The values a record of list[dict[str, Any]] can hold.  Every field is a *)
(* tagged value: kind "absent" is a key the dict does not have, "none" is  *)
(* None, "str" a Python str (s), "datetime" a datetime / pd.Timestamp (dt),*)
(* "nat" pd.NaT, "num" an int / float / Decimal (num, in 1/Scale units),   *)
(* "nan" the float NaN, "other" a value of any other type.                 *)
(***************************************************************************)
Val(kind, num, s, dt) == [kind |-> kind, num |-> num, s |-> s, dt |-> dt]

NoDt == [ord |-> 0, sec |-> 0]

Absent == Val("absent", 0, <<>>, NoDt)

NoneVal == Val("none", 0, <<>>, NoDt)

StrVal(s) == Val("str", 0, s, NoDt)

NumVal(n) == Val("num", n, <<>>, NoDt)

NanVal == Val("nan", 0, <<>>, NoDt)

NatVal == Val("nat", 0, <<>>, NoDt)

DtVal(dt) == Val("datetime", 0, <<>>, dt)

OtherVal == Val("other", 0, <<>>, NoDt)

Txn(date, amount, category, description) ==
    [date |-> date, amount |-> amount, category |-> category,
     description |-> description]

(***************************************************************************)
(* datetime.strptime(s, fmt) for the three formats of services.py and the  *)
(* two of utils.py / reports.py.  A field is a run of digits of the width  *)
(* the directive allows; the separators are those of the format.  The      *)
(* result is [ok, dt]; ok = FALSE stands for ValueError.                   *)
(***************************************************************************)
FieldOk(f, minLen, maxLen) ==
    /\ Len(f) >= minLen
    /\ Len(f) <= maxLen
    /\ AllDigits(f)

NoParse == [ok |-> FALSE, dt |-> NoDt]

\* the fields <<Y, m, d>> and <<H, M, S>> already split off
DateFromFields(y, m, d, hh, mm, ss) ==
    IF /\ FieldOk(y, 4, 4) /\ FieldOk(m, 1, 2) /\ FieldOk(d, 1, 2)
       /\ FieldOk(hh, 1, 2) /\ FieldOk(mm, 1, 2) /\ FieldOk(ss, 1, 2)
    THEN LET yv == DigitsVal(y)
             mv == DigitsVal(m)
             dv == DigitsVal(d)
             hv == DigitsVal(hh)
             nv == DigitsVal(mm)
             sv == DigitsVal(ss)
         IN  IF ValidYMD(yv, mv, dv) /\ hv <= 23 /\ nv <= 59 /\ sv <= 61
                \* strptime accepts second 60/61, datetime() then rejects it
                /\ sv <= 59
             THEN [ok |-> TRUE,
                   dt |-> MkDatetime(yv, mv, dv, hv * 3600 + nv * 60 + sv)]
             ELSE NoParse
    ELSE NoParse

\* "%Y-%m-%d %H:%M:%S"
StrptimeIsoDatetime(s) ==
    LET halves == Split(s, " ")
    IN  IF Len(halves) # 2 THEN NoParse
        ELSE LET dp == Split(halves[1], "-")
                 tp == Split(halves[2], ":")
             IN  IF Len(dp) # 3 \/ Len(tp) # 3 THEN NoParse
                 ELSE DateFromFields(dp[1], dp[2], dp[3], tp[1], tp[2], tp[3])

\* "%d.%m.%Y %H:%M:%S"
StrptimeDottedDatetime(s) ==
    LET halves == Split(s, " ")
    IN  IF Len(halves) # 2 THEN NoParse
        ELSE LET dp == Split(halves[1], ".")
                 tp == Split(halves[2], ":")
             IN  IF Len(dp) # 3 \/ Len(tp) # 3 THEN NoParse
                 ELSE DateFromFields(dp[3], dp[2], dp[1], tp[1], tp[2], tp[3])

\* "%Y-%m-%d"
StrptimeIsoDate(s) ==
    LET dp == Split(s, "-")
    IN  IF Len(dp) # 3 THEN NoParse
        ELSE DateFromFields(dp[1], dp[2], dp[3], <<"0">>, <<"0">>, <<"0">>)

(***************************************************************************)
(* services.py: the date filter shared by profitable_cashback_categories   *)
(* (filter_by_date) and investment_bank (filter_by_month).                 *)
(***************************************************************************)
\* the loop over the three formats: the first format that parses decides
StrDateMatches(s, year, month) ==
    LET p1 == StrptimeIsoDatetime(s)
        p2 == StrptimeDottedDatetime(s)
        p3 == StrptimeIsoDate(s)
    IN  IF p1.ok THEN YearOf(p1.dt) = year /\ MonthOf(p1.dt) = month
        ELSE IF p2.ok THEN YearOf(p2.dt) = year /\ MonthOf(p2.dt) = month
        ELSE IF p3.ok THEN YearOf(p3.dt) = year /\ MonthOf(p3.dt) = month
        ELSE FALSE

filter_by_date(transaction, year, month) ==
    LET d == transaction.date
    IN  IF d.kind \in {"absent", "none"} THEN FALSE
        ELSE IF d.kind = "datetime"
             THEN YearOf(d.dt) = year /\ MonthOf(d.dt) = month
        \* pd.NaT is a datetime instance whose year and month are NaN
        ELSE IF d.kind = "nat" THEN FALSE
        ELSE IF d.kind = "str" THEN StrDateMatches(d.s, year, month)
        ELSE FALSE

\* list(filter(f, xs))
monthly_transactions(xs, year, month) ==
    SelectSeq(xs, LAMBDA t : filter_by_date(t, year, month))

(***************************************************************************)
(* services.py: the amount conversion shared by calculate_cashback and     *)
(* calculate_rounding.  [skip |-> TRUE] is "return acc".                   *)
(***************************************************************************)
Skip == [skip |-> TRUE, amount |-> Fl(0)]

Amount(a) == [skip |-> FALSE, amount |-> a]

\* amount_raw = transaction.get("Сумма операции", 0) ... float(...)
parse_amount(transaction) ==
    LET raw == transaction.amount
    IN  IF raw.kind = "absent" THEN Amount(Fl(0))
        ELSE IF raw.kind = "none" THEN Skip
        ELSE IF raw.kind = "str"
             THEN LET amount_str ==
                          ReplaceChar(ReplaceChar(raw.s, ",", <<".">>), " ", <<>>)
                      p == ParseFloat(amount_str)
                  IN  IF p.ok THEN Amount(p.val) ELSE Skip
        ELSE IF raw.kind = "num" THEN Amount(Fl(raw.num))
        ELSE IF raw.kind = "nan" THEN Amount(NaN)
        ELSE Skip   \* float(x) raises TypeError / ValueError

\* "if amount >= 0": every comparison with NaN is False
GeZero(a) == ~a.nan /\ a.v >= 0

\* abs(amount), acc + x and max(x, 0) on floats
FAbs(a) == IF a.nan THEN NaN ELSE Fl(Abs(a.v))

FAdd(a, b) == IF a.nan \/ b.nan THEN NaN ELSE Fl(a.v + b.v)

FSub(a, b) == IF a.nan \/ b.nan THEN NaN ELSE Fl(a.v - b.v)

\* mutant of FMax0: the difference is accumulated without the clamp at 0
FMax0_NoClamp(x) == x

\* max(x, 0): 0 replaces x only when 0 > x, which is False for NaN
FMax0(x) == IF ~x.nan /\ 0 > x.v THEN Fl(0) ELSE x

(***************************************************************************)
(* services.py: profitable_cashback_categories.                            *)
(***************************************************************************)
CashbackRatePercent == 1

OtherCategory == <<"O", "t", "h", "e", "r">>          \* "Другое"

NoneText == <<"N", "o", "n", "e">>                    \* str(None)

NanText == <<"n", "a", "n">>                          \* str(float("nan"))

\* str(transaction.get(key, default)) for a text field
StrOfField(v, default) ==
    IF v.kind = "absent" THEN default
    ELSE IF v.kind = "none" THEN NoneText
    ELSE IF v.kind = "nan" THEN NanText
    ELSE v.s

\* abs(amount) * 0.01
cashback_of(amount) ==
    IF amount.nan THEN NaN
    ELSE Fl((Abs(amount.v) * CashbackRatePercent) \div 100)

\* acc.get(category, 0.0)
DictGet(acc, k, default) == IF k \in DOMAIN acc THEN acc[k] ELSE default

\* acc[k] = v
DictSet(acc, k, v) ==
    [x \in DOMAIN acc \cup {k} |-> IF x = k THEN v ELSE acc[x]]

EmptyDict == [x \in {} |-> 0]

calculate_cashback(acc, transaction) ==
    LET a == parse_amount(transaction)
    IN  IF a.skip THEN acc
        ELSE IF GeZero(a.amount) THEN acc
        ELSE LET category == StrOfField(transaction.category, OtherCategory)
                 cashback == cashback_of(a.amount)
             IN  DictSet(acc, category,
                         FAdd(DictGet(acc, category, Fl(0)), cashback))

\* functools.reduce(f, xs, init)
RECURSIVE ReduceCashback(_, _)
ReduceCashback(acc, xs) ==
    IF xs = <<>> THEN acc
    ELSE ReduceCashback(calculate_cashback(acc, Head(xs)), Tail(xs))

profitable_cashback_categories(xs, year, month) ==
    ReduceCashback(EmptyDict, monthly_transactions(xs, year, month))

(***************************************************************************)
(* services.py: investment_bank.                                           *)
(***************************************************************************)
\* year, month_num = map(int, month.split("-")); ok = FALSE is ValueError
ParseMonth(month) ==
    LET parts == Split(month, "-")
    IN  IF Len(parts) = 2 /\ IntParses(parts[1]) /\ IntParses(parts[2])
        THEN [ok |-> TRUE, year |-> IntValue(parts[1]),
              month_num |-> IntValue(parts[2])]
        ELSE [ok |-> FALSE, year |-> 0, month_num |-> 0]

\* mutant of rounded_amount: always the next multiple, (a // limit + 1) * limit
rounded_amount_NextMultiple(amount_abs, limit) ==
    IF amount_abs.nan THEN NaN
    ELSE Fl((FloorDiv(amount_abs.v, limit * Scale) + 1) * (limit * Scale))

\* ((amount_abs + limit - 1) // limit) * limit, limit in currency units
rounded_amount(amount_abs, limit) ==
    IF amount_abs.nan THEN NaN
    ELSE Fl(FloorDiv(amount_abs.v + (limit - 1) * Scale, limit * Scale)
                * (limit * Scale))

calculate_rounding(acc, transaction, limit) ==
    LET a == parse_amount(transaction)
    IN  IF a.skip THEN acc
        ELSE IF GeZero(a.amount) THEN acc
        ELSE LET amount_abs == FAbs(a.amount)
                 difference == FSub(rounded_amount(amount_abs, limit), amount_abs)
             IN  FAdd(acc, FMax0(difference))

RECURSIVE ReduceRounding(_, _, _)
ReduceRounding(acc, xs, limit) ==
    IF xs = <<>> THEN acc
    ELSE ReduceRounding(calculate_rounding(acc, Head(xs), limit), Tail(xs), limit)

investment_bank(month, xs, limit) ==
    LET pm == ParseMonth(month)
    IN  IF ~pm.ok THEN Fl(0)
        ELSE ReduceRounding(Fl(0), monthly_transactions(xs, pm.year, pm.month_num),
                            limit)

(***************************************************************************)
(* The records the service functions are exercised on: the fixtures of     *)
(* tests/test_services.py, one field varied at a time around an October    *)
(* 2023 expense.  Category and description texts are transliterated.       *)
(***************************************************************************)
Food == <<"F", "o", "o", "d">>

Taxi == <<"T", "a", "x", "i">>

Transfers == <<"T", "r", "a", "n", "s", "f", "e", "r", "s">>                          \* "Переводы"

PlainText == <<"S", "h", "o", "p">>

OctoberDate == StrVal(<<"2", "0", "2", "3", "-", "1", "0", "-", "0", "5", " ", "1", "2", ":", "0", "0", ":", "0", "0">>)

SmallExpense == StrVal(<<"-", "1", "0", "0", ".", "0", "0">>)

DateInputs ==
    { OctoberDate,
      StrVal(<<"0", "1", ".", "1", "0", ".", "2", "0", "2", "3", " ", "0", "8", ":", "4", "5", ":", "0", "0">>),
      StrVal(<<"2", "0", "2", "3", "-", "1", "0", "-", "2", "0">>),
      DtVal(MkDatetime(2023, 10, 15, 14 * 3600)),
      StrVal(<<"2", "0", "2", "3", "-", "1", "1", "-", "0", "1", " ", "0", "9", ":", "1", "5", ":", "0", "0">>),
      DtVal(MkDatetime(2022, 10, 15, 0)),
      StrVal(<<"2", "0", "2", "3", "/", "1", "0", "/", "0", "5", " ", "1", "2", ":", "0", "0", ":", "0", "0">>),
      StrVal(<<"2", "0", "2", "3", "-", "1", "3", "-", "4", "5", " ", "2", "5", ":", "6", "1", ":", "6", "1">>),
      StrVal(<<>>),
      NoneVal, Absent, NatVal, OtherVal }

AmountInputs ==
    { SmallExpense,
      StrVal(<<"-", "1", "5", "0", "0", ".", "0", "0">>),
      StrVal(<<"-", "2", "0", "0", ",", "5", "0">>),
      StrVal(<<"-", "1", " ", "2", "0", "0", ".", "0", "0">>),
      NumVal(-50075 * (Scale \div 100)),
      NumVal(-1499 * Scale),
      NumVal(-3 * Scale),
      StrVal(<<"1", "5", "0", ".", "0", "0">>),
      NumVal(0),
      StrVal(<<"a", "b", "c">>),
      StrVal(<<"1", "2", ",", "4", ".", "7">>),
      StrVal(<<>>),
      NoneVal, Absent, NanVal, OtherVal }

CategoryInputs == { StrVal(Food), StrVal(Taxi), StrVal(Transfers), NoneVal, Absent }

SampleTransactions ==
    { Txn(d, SmallExpense, StrVal(Food), StrVal(PlainText)) : d \in DateInputs }
    \cup { Txn(OctoberDate, a, StrVal(Food), StrVal(PlainText)) : a \in AmountInputs }
    \cup { Txn(OctoberDate, SmallExpense, c, StrVal(PlainText)) : c \in CategoryInputs }
    \cup { Txn(StrVal(<<"2", "0", "2", "3", "-", "1", "0", "-", "2", "0">>), StrVal(<<"-", "2", "0", "0", ",", "5", "0">>), StrVal(Taxi),
               StrVal(PlainText)) }

\* the records a collection may hold any number of; of the other records of
\* SampleTransactions a collection of the model holds at most one
CoreTransactions ==
    { Txn(OctoberDate, SmallExpense, StrVal(Food), StrVal(PlainText)),
      Txn(OctoberDate, StrVal(<<"-", "1", "5", "0", "0", ".", "0", "0">>), StrVal(Food), StrVal(PlainText)),
      Txn(OctoberDate, NumVal(-1499 * Scale), StrVal(Food), StrVal(PlainText)),
      Txn(StrVal(<<"2", "0", "2", "3", "-", "1", "0", "-", "2", "0">>), StrVal(<<"-", "2", "0", "0", ",", "5", "0">>), StrVal(Taxi),
          StrVal(PlainText)) }

InputCollection(xs) ==
    /\ \A i \in 1..Len(xs) : xs[i] \in SampleTransactions
    /\ Cardinality({ i \in 1..Len(xs) : xs[i] \notin CoreTransactions }) <= 1

YearMonthInputs == { <<2023, 10>>, <<2023, 11>> }

October2023 == <<"2", "0", "2", "3", "-", "1", "0">>

\* <<month, limit>> arguments of investment_bank
InvestmentInputs ==
    { <<October2023, 1>>, <<October2023, 100>>, <<October2023, 500>>,
      <<<<"2", "0", "2", "3", "-", "1", "1">>, 100>>, <<<<"2", "0", "2", "3", "/", "1", "0">>, 100>>, <<<<>>, 100>>,
      <<<<"2", "0", "2", "3", "-", "1", "0", "-", "0", "5">>, 100>>, <<<<"a", "b", "c", "d", "-", "e", "f">>, 100>> }

(***************************************************************************)
(* The state machine: the caller builds a collection and calls functions.  *)
(***************************************************************************)
NoCall == [fn |-> "none", args |-> <<>>, value |-> <<>>]

Call(fn, args, value) == [fn |-> fn, args |-> args, value |-> value]

Init ==
    /\ data = <<>>
    /\ transactions = <<>>
    /\ hasDateColumn = TRUE
    /\ disk = <<>>
    /\ hashSeed = 0
    /\ ret = NoCall

\* the caller appends a record; the value of the last call is dropped
AddTransaction ==
    /\ Len(data) < MaxData
    /\ \E t \in SampleTransactions :
          /\ InputCollection(Append(data, t))
          /\ data' = Append(data, t)
    /\ ret' = NoCall
    /\ UNCHANGED <<transactions, hasDateColumn, disk, hashSeed>>

CallCashback ==
    /\ \E ym \in YearMonthInputs :
          ret' = Call("profitable_cashback_categories", ym,
                      profitable_cashback_categories(data, ym[1], ym[2]))
    /\ UNCHANGED <<data, transactions, hasDateColumn, disk, hashSeed>>

CallInvestmentBank ==
    /\ \E a \in InvestmentInputs :
          ret' = Call("investment_bank", a, investment_bank(a[1], data, a[2]))
    /\ UNCHANGED <<data, transactions, hasDateColumn, disk, hashSeed>>

NextServices ==
    \/ AddTransaction
    \/ CallCashback
    \/ CallInvestmentBank

SpecServices == Init /\ [][NextServices]_vars

(***************************************************************************)
(* Vocabulary of the claims about the services: what a record's operation  *)
(* date and amount are, stated on the record and not on the fold.          *)
(***************************************************************************)
\* the operation date of a record: [ok, dt]; ok = FALSE when missing/unparseable
OperationDate(t) ==
    LET d == t.date
    IN  IF d.kind = "datetime" THEN [ok |-> TRUE, dt |-> d.dt]
        ELSE IF d.kind = "str"
             THEN IF StrptimeIsoDatetime(d.s).ok THEN StrptimeIsoDatetime(d.s)
                  ELSE IF StrptimeDottedDatetime(d.s).ok
                       THEN StrptimeDottedDatetime(d.s)
                  ELSE StrptimeIsoDate(d.s)
        ELSE NoParse

InMonth(t, year, month) ==
    /\ OperationDate(t).ok
    /\ YearOf(OperationDate(t).dt) = year
    /\ MonthOf(OperationDate(t).dt) = month

\* the amount of a record as a number: [ok, val]; ok = FALSE when the key is
\* missing, the value null or not convertible to a float
NumericAmount(t) ==
    LET raw == t.amount
    IN  IF raw.kind = "num" THEN [ok |-> TRUE, val |-> Fl(raw.num)]
        ELSE IF raw.kind = "nan" THEN [ok |-> TRUE, val |-> NaN]
        ELSE IF raw.kind = "str"
             THEN ParseFloat(ReplaceChar(ReplaceChar(raw.s, ",", <<".">>), " ", <<>>))
        ELSE [ok |-> FALSE, val |-> Fl(0)]

\* a qualifying expense of the month: parseable date in it, parseable amount < 0
IsExpense(t, year, month) ==
    /\ InMonth(t, year, month)
    /\ NumericAmount(t).ok
    /\ ~NumericAmount(t).val.nan
    /\ NumericAmount(t).val.v < 0

\* |amount| of a qualifying expense, in 1/Scale units
Magnitude(t) == Abs(NumericAmount(t).val.v)

HasNaNAmount(xs) ==
    \E i \in 1..Len(xs) : NumericAmount(xs[i]).ok /\ NumericAmount(xs[i]).val.nan

RemoveAt(xs, i) == SubSeq(xs, 1, i - 1) \o SubSeq(xs, i + 1, Len(xs))

ReplaceAt(xs, i, t) == [xs EXCEPT ![i] = t]

\* the sum of f[i] over the indices i in S
RECURSIVE SumOver(_, _)
SumOver(f, S) ==
    IF S = {} THEN 0
    ELSE LET i == CHOOSE x \in S : TRUE IN f[i] + SumOver(f, S \ {i})

\* float comparison a < b: False when either is NaN
FLt(a, b) == ~a.nan /\ ~b.nan /\ a.v < b.v

\* the smallest multiple of round_to (currency units) that is >= a
CeilMultiple(a, round_to) ==
    LET unit == round_to * Scale IN ((a + unit - 1) \div unit) * unit

CashbackCall == ret.fn = "profitable_cashback_categories"

InvestmentCall == ret.fn = "investment_bank" /\ ParseMonth(ret.args[1]).ok

InvestmentYear == ParseMonth(ret.args[1]).year

InvestmentMonth == ParseMonth(ret.args[1]).month_num

(***************************************************************************)
(* C1.  profitable_cashback_categories(data, y, m) returns a mapping whose *)
(* keys are exactly the categories of the records with a parseable         *)
(* operation date in year y, month m and a parseable amount < 0, and whose *)
(* value for a key is the sum of 0.01 * |amount| over those records; any   *)
(* other record adds nothing and creates no key.                           *)
(***************************************************************************)
C1_CashbackKeysAndSums ==
    CashbackCall =>
        LET y == ret.args[1]
            m == ret.args[2]
            Q == { i \in 1..Len(data) : IsExpense(data[i], y, m) }
            cat(i) == StrOfField(data[i].category, OtherCategory)
            share == [i \in 1..Len(data) |-> Magnitude(data[i]) \div 100]
        IN  /\ DOMAIN ret.value = { cat(i) : i \in Q }
            /\ \A k \in DOMAIN ret.value :
                  ret.value[k] = Fl(SumOver(share, { i \in Q : cat(i) = k }))

(***************************************************************************)
(* C2.  For every qualifying expense with a = |amount|, integer or         *)
(* fractional, and every positive integer round_to, investment_bank adds   *)
(* rounded - a, rounded being the smallest multiple of round_to that is    *)
(* >= a; the result is the sum of these contributions.  (Stated here for   *)
(* the collections without a NaN amount.)                                  *)
(***************************************************************************)
C2_RoundUpToSmallestMultiple ==
    (InvestmentCall /\ ~HasNaNAmount(data)) =>
        LET Q == { i \in 1..Len(data) :
                     IsExpense(data[i], InvestmentYear, InvestmentMonth) }
            contribution ==
                [i \in 1..Len(data) |->
                    CeilMultiple(Magnitude(data[i]), ret.args[2])
                        - Magnitude(data[i])]
        IN  ret.value = Fl(SumOver(contribution, Q))

(***************************************************************************)
(* C9.  For fixed month and limit the value of investment_bank never       *)
(* decreases when a further qualifying expense is added, and never         *)
(* decreases when the magnitude of a qualifying expense is increased.      *)
(***************************************************************************)
C9_AddingExpenseNeverDecreases ==
    InvestmentCall =>
        \A i \in 1..Len(data) :
            IsExpense(data[i], InvestmentYear, InvestmentMonth) =>
                ~FLt(ret.value,
                     investment_bank(ret.args[1], RemoveAt(data, i), ret.args[2]))

\* the same record with a larger magnitude
LargerExpense(t, u, year, month) ==
    /\ IsExpense(t, year, month)
    /\ IsExpense(u, year, month)
    /\ u.date = t.date
    /\ u.category = t.category
    /\ u.description = t.description
    /\ Magnitude(u) > Magnitude(t)

C9_LargerMagnitudeNeverDecreases ==
    InvestmentCall =>
        \A i \in 1..Len(data) : \A u \in SampleTransactions :
            LargerExpense(data[i], u, InvestmentYear, InvestmentMonth) =>
                ~FLt(investment_bank(ret.args[1], ReplaceAt(data, i, u), ret.args[2]),
                     ret.value)

\* the claim as stated: both halves
C9_Original ==
    C9_AddingExpenseNeverDecreases /\ C9_LargerMagnitudeNeverDecreases

\* an expense was added to a collection and the value grew
C9_Witness ==
    /\ InvestmentCall
    /\ Len(data) >= 2
    /\ IsExpense(data[Len(data)], InvestmentYear, InvestmentMonth)
    /\ FLt(investment_bank(ret.args[1], RemoveAt(data, Len(data)), ret.args[2]),
           ret.value)

(***************************************************************************)
(* C10.  In investment_bank("2023-10", txs, 500) an October 2023 expense   *)
(* of -1500.00 is rounded up to 2000 and contributes 500 to the total, and *)
(* the total is the sum of the contributions of the qualifying rows only.  *)
(* As amended: the expense is already a multiple of 500, its target is     *)
(* 1500 and it contributes 0; a row that does not qualify because of its   *)
(* date or because its amount is missing, null, unparseable or >= 0        *)
(* contributes nothing.                                                    *)
(***************************************************************************)
October500Call == ret.fn = "investment_bank" /\ ret.args = <<October2023, 500>>

IsOctober1500(t) == IsExpense(t, 2023, 10) /\ Magnitude(t) = 1500 * Scale

\* not an expense of the month, for a reason the claim names
Excluded(t, year, month) ==
    \/ ~InMonth(t, year, month)
    \/ ~NumericAmount(t).ok
    \/ (~NumericAmount(t).val.nan /\ NumericAmount(t).val.v >= 0)

C10_Original ==
    October500Call =>
        \A i \in 1..Len(data) :
            IsOctober1500(data[i]) =>
                ret.value = FAdd(investment_bank(October2023, RemoveAt(data, i), 500),
                                 Fl(500 * Scale))

C10_Contributes0 ==
    October500Call =>
        \A i \in 1..Len(data) :
            (IsOctober1500(data[i]) \/ Excluded(data[i], 2023, 10)) =>
                /\ ret.value = investment_bank(October2023, RemoveAt(data, i), 500)
                /\ IsOctober1500(data[i]) =>
                      CeilMultiple(Magnitude(data[i]), 500) = 1500 * Scale

C10_Witness ==
    /\ October500Call
    /\ \E i \in 1..Len(data) : IsOctober1500(data[i])
    /\ ~ret.value.nan
    /\ ret.value.v > 0

(***************************************************************************)
(* utils.py: get_date_range.  The value is [raised, start, end]; raised is *)
(* "" for a normal return, else the exception that leaves the function.    *)
(***************************************************************************)
MaxOrdinal == Ymd2Ord(9999, 12, 31)                  \* datetime.max

Raised(e) == [raised |-> e, start |-> NoDt, end |-> NoDt]

Window(start_date, end_date) ==
    [raised |-> "", start |-> start_date, end |-> end_date]

\* mutant of WeekWindow: the week ends on its Saturday
WeekWindow_EndsOnSaturday(start_date) ==
    IF OrdOf(start_date) + 5 > MaxOrdinal THEN Raised("OverflowError")
    ELSE Window(start_date, PlusDays(start_date, 5))

\* start_date + timedelta(days = 6): OverflowError beyond datetime.max
WeekWindow(start_date) ==
    IF OrdOf(start_date) + 6 > MaxOrdinal THEN Raised("OverflowError")
    ELSE Window(start_date, PlusDays(start_date, 6))

\* mutant of Weekday: Sunday = 0 ... Saturday = 6
Weekday_SundayFirst(dt) == OrdOf(dt) % 7

\* date.weekday() as get_date_range uses it
weekday_of(dt) == Weekday(dt)

\* mutant of get_date_range: an unrecognised period is an error
get_date_range_StrictPeriod(date_str, period) ==
    LET p == StrptimeIsoDatetime(date_str)
        date == p.dt
    IN  IF ~p.ok THEN Raised("ValueError")
        ELSE IF period = "W"
             THEN WeekWindow(PlusDays(date, -weekday_of(date)))
        ELSE IF period = "M" THEN Window(ReplaceDay1(date), date)
        ELSE IF period = "Y" THEN Window(ReplaceMonthDay1(date), date)
        ELSE IF period = "ALL" THEN Window(MkDatetime(1900, 1, 1, 0), date)
        ELSE Raised("ValueError")

get_date_range(date_str, period) ==
    LET p == StrptimeIsoDatetime(date_str)
        date == p.dt
    IN  IF ~p.ok THEN Raised("ValueError")
        ELSE IF period = "W"
             THEN WeekWindow(PlusDays(date, -weekday_of(date)))
        ELSE IF period = "M" THEN Window(ReplaceDay1(date), date)
        ELSE IF period = "Y" THEN Window(ReplaceMonthDay1(date), date)
        ELSE IF period = "ALL" THEN Window(MkDatetime(1900, 1, 1, 0), date)
        ELSE Window(ReplaceDay1(date), date)

(***************************************************************************)
(* utils.py: filter_transactions_by_date on a DataFrame.  A frame is a     *)
(* sequence of rows; row.date is a Timestamp (kind "datetime"), pd.NaT     *)
(* (kind "nat") or, in a frame without the column, absent.                 *)
(***************************************************************************)
\* series >= start_date and series <= end_date: False for NaT
SeriesGe(d, bound) == d.kind = "datetime" /\ DtGe(d.dt, bound)

SeriesLe(d, bound) == d.kind = "datetime" /\ DtLe(d.dt, bound)

\* mutant of DateMask: the end bound is exclusive
DateMask_ExclusiveEnd(rows, start_date, end_date) ==
    [i \in 1..Len(rows) |->
        SeriesGe(rows[i].date, start_date)
            /\ SeriesLe(rows[i].date, end_date)
            /\ rows[i].date.dt # end_date]

\* mask = (col >= start_date) & (col <= end_date)
DateMask(rows, start_date, end_date) ==
    [i \in 1..Len(rows) |->
        SeriesGe(rows[i].date, start_date) /\ SeriesLe(rows[i].date, end_date)]

\* frame[mask]: the rows whose mask is True, in their order
RECURSIVE BoolIndex(_, _)
BoolIndex(rows, mask) ==
    IF rows = <<>> THEN <<>>
    ELSE LET n == Len(rows)
             front == BoolIndex(SubSeq(rows, 1, n - 1), SubSeq(mask, 1, n - 1))
         IN  IF mask[n] THEN Append(front, rows[n]) ELSE front

filter_transactions_by_date(rows, has_column, start_date, end_date) ==
    IF ~has_column THEN rows
    ELSE BoolIndex(rows, DateMask(rows, start_date, end_date))

(***************************************************************************)
(* The inputs of the date helpers: reference instants around week, month,  *)
(* year and epoch boundaries, and a frame of dated rows.                   *)
(***************************************************************************)
ReferenceInputs ==
    { <<"2", "0", "2", "3", "-", "0", "6", "-", "1", "5", " ", "1", "2", ":", "0", "0", ":", "0", "0">>,       \* a Thursday (tests/test_utils.py)
      <<"2", "0", "2", "3", "-", "0", "6", "-", "1", "2", " ", "0", "0", ":", "0", "0", ":", "0", "0">>,       \* a Monday
      <<"2", "0", "2", "3", "-", "0", "6", "-", "1", "8", " ", "2", "3", ":", "5", "9", ":", "5", "9">>,       \* a Sunday
      <<"2", "0", "2", "4", "-", "0", "2", "-", "2", "9", " ", "0", "8", ":", "3", "0", ":", "0", "0">>,
      <<"2", "0", "2", "3", "-", "0", "1", "-", "0", "1", " ", "0", "0", ":", "0", "0", ":", "0", "0">>,
      <<"1", "9", "0", "0", "-", "0", "1", "-", "0", "1", " ", "0", "0", ":", "0", "0", ":", "0", "0">>,
      <<"1", "8", "9", "9", "-", "1", "2", "-", "3", "1", " ", "2", "3", ":", "5", "9", ":", "5", "9">>,
      <<"0", "0", "0", "1", "-", "0", "1", "-", "0", "1", " ", "0", "0", ":", "0", "0", ":", "0", "0">>,
      <<"9", "9", "9", "9", "-", "1", "2", "-", "3", "1", " ", "0", "0", ":", "0", "0", ":", "0", "0">>,
      <<"2", "0", "2", "3", "-", "0", "6", "-", "1", "3", " ", "0", "7", ":", "0", "0", ":", "0", "0">>,       \* Tuesday
      <<"2", "0", "2", "3", "-", "0", "6", "-", "1", "4", " ", "0", "7", ":", "0", "0", ":", "0", "0">>,       \* Wednesday
      <<"2", "0", "2", "3", "-", "0", "6", "-", "1", "6", " ", "0", "7", ":", "0", "0", ":", "0", "0">>,       \* Friday
      <<"2", "0", "2", "3", "-", "0", "6", "-", "1", "7", " ", "0", "7", ":", "0", "0", ":", "0", "0">>,       \* Saturday
      <<"2", "0", "2", "3", "-", "0", "5", "-", "0", "1", " ", "0", "0", ":", "0", "0", ":", "0", "0">>,       \* a Monday that opens a month
      <<"2", "0", "2", "3", "-", "0", "3", "-", "0", "1", " ", "0", "9", ":", "0", "0", ":", "0", "0">>,       \* the week reaches back into February
      <<"2", "0", "2", "4", "-", "0", "3", "-", "0", "2", " ", "0", "9", ":", "0", "0", ":", "0", "0">>,       \* ... across 29 February
      <<"2", "0", "2", "4", "-", "1", "2", "-", "3", "1", " ", "2", "3", ":", "5", "9", ":", "5", "9">>,
      <<"2", "0", "0", "0", "-", "0", "2", "-", "2", "9", " ", "1", "2", ":", "0", "0", ":", "0", "0">>,
      <<"1", "9", "0", "0", "-", "0", "1", "-", "0", "3", " ", "0", "0", ":", "0", "0", ":", "0", "0">>,       \* the week starts in 1899
      <<"1", "6", "0", "0", "-", "0", "7", "-", "0", "4", " ", "0", "6", ":", "0", "0", ":", "0", "0">>,
      <<"2", "0", "2", "3", "-", "0", "6", "-", "1", "5">>,
      <<"2", "0", "2", "3", "-", "0", "2", "-", "3", "0", " ", "1", "2", ":", "0", "0", ":", "0", "0">>,
      <<"1", "5", ".", "0", "6", ".", "2", "0", "2", "3", " ", "1", "2", ":", "0", "0", ":", "0", "0">> }

PeriodInputs == { "W", "M", "Y", "ALL", "INVALID", "w", "" }

Row(date, category, amount, description) ==
    [date |-> date, category |-> category, amount |-> amount,
     description |-> description]

JuneDates ==
    { MkDatetime(2023, 6, 1, 12 * 3600),
      MkDatetime(2023, 6, 1, 12 * 3600 - 1),
      MkDatetime(2023, 6, 12, 12 * 3600),
      MkDatetime(2023, 6, 15, 12 * 3600),
      MkDatetime(2023, 6, 15, 12 * 3600 + 1),
      MkDatetime(2023, 6, 18, 12 * 3600) }

DatedRows ==
    { Row(DtVal(d), StrVal(Food), NumVal(-100 * Scale), StrVal(PlainText)) :
        d \in JuneDates }
    \cup { Row(NatVal, StrVal(Food), NumVal(-100 * Scale), StrVal(PlainText)),
           Row(DtVal(MkDatetime(2023, 6, 15, 12 * 3600)), StrVal(Taxi),
               NumVal(250 * Scale), StrVal(PlainText)) }

\* a row of a frame that has no "Дата операции" column
WithoutDate(row) == [row EXCEPT !.date = Absent]

\* <<start_date, end_date>> arguments of filter_transactions_by_date
WindowInputs ==
    { <<MkDatetime(2023, 6, 1, 12 * 3600), MkDatetime(2023, 6, 15, 12 * 3600)>>,
      <<MkDatetime(2023, 6, 12, 12 * 3600), MkDatetime(2023, 6, 18, 12 * 3600)>>,
      <<MkDatetime(1900, 1, 1, 0), MkDatetime(2023, 6, 15, 12 * 3600)>> }

InitFilter ==
    /\ data = <<>>
    /\ transactions = <<>>
    /\ hasDateColumn \in BOOLEAN
    /\ disk = <<>>
    /\ hashSeed = 0
    /\ ret = NoCall

\* the caller's frame gets one more row; the value of the last call is dropped
AddDatedRow ==
    /\ Len(transactions) < MaxRows
    /\ \E r \in DatedRows :
          transactions' =
              Append(transactions, IF hasDateColumn THEN r ELSE WithoutDate(r))
    /\ ret' = NoCall
    /\ UNCHANGED <<data, hasDateColumn, disk, hashSeed>>

CallGetDateRange ==
    /\ \E date_str \in ReferenceInputs, period \in PeriodInputs :
          ret' = Call("get_date_range", <<date_str, period>>,
                      get_date_range(date_str, period))
    /\ UNCHANGED <<data, transactions, hasDateColumn, disk, hashSeed>>

CallFilterByDate ==
    /\ \E w \in WindowInputs :
          ret' = Call("filter_transactions_by_date", w,
                      filter_transactions_by_date(transactions, hasDateColumn,
                                                  w[1], w[2]))
    /\ UNCHANGED <<data, transactions, hasDateColumn, disk, hashSeed>>

NextDateRange == CallGetDateRange

SpecDateRange == Init /\ [][NextDateRange]_vars

NextFilter ==
    \/ AddDatedRow
    \/ CallFilterByDate

SpecFilter == InitFilter /\ [][NextFilter]_vars

(***************************************************************************)
(* Vocabulary of the claims about the date helpers.                        *)
(***************************************************************************)
FilterCall == ret.fn = "filter_transactions_by_date"

\* the operation date of the row is present and lies in [start, end]
InWindow(row, start_date, end_date) ==
    /\ row.date.kind = "datetime"
    /\ DtLe(start_date, row.date.dt)
    /\ DtLe(row.date.dt, end_date)

\* the rows of the frame inside the window, in their original relative order
RowsInWindow(rows, start_date, end_date) ==
    SelectSeq(rows, LAMBDA r : InWindow(r, start_date, end_date))

\* get_date_range returned a window for the period
ReturnedWindow(period) ==
    /\ ret.fn = "get_date_range"
    /\ ret.args[2] = period
    /\ ret.value.raised = ""

\* the reference instant of the call
Reference == StrptimeIsoDatetime(ret.args[1]).dt

IsMondayOfWeekOf(start_date, d) ==
    /\ Weekday(start_date) = 0
    /\ OrdOf(d) - OrdOf(start_date) \in 0..6

(***************************************************************************)
(* C5.  filter_transactions_by_date(ts, start, end) returns exactly the    *)
(* records of ts, in their original relative order, whose operation date   *)
(* is present and satisfies start <= d <= end; a record with a missing     *)
(* operation date is never returned.  As amended: this holds for a frame   *)
(* that has the operation-date column; a frame without the column is       *)
(* returned unchanged.                                                     *)
(***************************************************************************)
C5_Original ==
    FilterCall =>
        ret.value = RowsInWindow(transactions, ret.args[1], ret.args[2])

C5_FilterByWindow ==
    FilterCall =>
        /\ hasDateColumn =>
              ret.value = RowsInWindow(transactions, ret.args[1], ret.args[2])
        /\ ~hasDateColumn => ret.value = transactions

\* of two rows the one dated exactly end_date is kept, the other dropped
C5_Witness ==
    /\ FilterCall
    /\ hasDateColumn
    /\ Len(transactions) = 2
    /\ Len(ret.value) = 1
    /\ ret.value[1].date.dt = ret.args[2]

(***************************************************************************)
(* C6.  For every reference instant d, get_date_range(d, 'W') returns      *)
(* start = the most recent Monday at or before d (d's own day when d is a  *)
(* Monday) and end = d itself, not the end of the week.  As amended: the   *)
(* start is that Monday at d's time of day and the end is the Sunday of    *)
(* the same week, start + 6 days, not d.                                   *)
(***************************************************************************)
C6_Original ==
    ReturnedWindow("W") =>
        /\ IsMondayOfWeekOf(ret.value.start, Reference)
        /\ ret.value.end = Reference

C6_WeekEndsOnSunday ==
    ReturnedWindow("W") =>
        /\ IsMondayOfWeekOf(ret.value.start, Reference)
        /\ SecOf(ret.value.start) = SecOf(Reference)
        /\ Weekday(ret.value.end) = 6
        /\ OrdOf(ret.value.end) - OrdOf(ret.value.start) = 6
        /\ SecOf(ret.value.end) = SecOf(Reference)

\* the reference is a Thursday: the week starts three days before it and
\* ends three days after it
C6_Witness ==
    /\ ReturnedWindow("W")
    /\ Weekday(Reference) = 3
    /\ OrdOf(Reference) - OrdOf(ret.value.start) = 3
    /\ OrdOf(ret.value.end) - OrdOf(Reference) = 3

(***************************************************************************)
(* C7.  For every reference instant the date parser accepts (any year) and *)
(* every period value (W, M, Y, ALL or an unrecognised value), the window  *)
(* (start, end) returned by get_date_range satisfies start <= end.         *)
(***************************************************************************)
C7_StartNotAfterEnd ==
    (ret.fn = "get_date_range" /\ ret.value.raised = "") =>
        DtLe(ret.value.start, ret.value.end)

(***************************************************************************)
(* services.py: simple_search, search_phone_numbers and                    *)
(* search_person_transfers.  The texts of the model are written in Latin   *)
(* letters; an upper-case Latin letter stands for a letter of [А-Я], a     *)
(* lower-case one for a letter of [а-я].  re.search is computed on sets of *)
(* positions: the positions a match of the pattern read so far can end at. *)
(***************************************************************************)
UpperLetters ==
    <<"A", "B", "C", "D", "E", "F", "G", "H", "I", "J", "K", "L", "M",
      "N", "O", "P", "Q", "R", "S", "T", "U", "V", "W", "X", "Y", "Z">>

LowerLetters ==
    <<"a", "b", "c", "d", "e", "f", "g", "h", "i", "j", "k", "l", "m",
      "n", "o", "p", "q", "r", "s", "t", "u", "v", "w", "x", "y", "z">>

IsUpper(c) == \E i \in DOMAIN UpperLetters : UpperLetters[i] = c

\* str.lower()
lower(s) ==
    [i \in 1..Len(s) |->
        IF IsUpper(s[i])
        THEN LowerLetters[CHOOSE k \in DOMAIN UpperLetters : UpperLetters[k] = s[i]]
        ELSE s[i]]

\* query in text
Contains(text, query) ==
    \E i \in 0..(Len(text) - Len(query)) :
        SubSeq(text, i + 1, i + Len(query)) = query

matches_query(transaction, search_query) ==
    LET description == lower(StrOfField(transaction.description, <<>>))
        category == lower(StrOfField(transaction.category, <<>>))
        query == lower(search_query)
    IN  Contains(description, query) \/ Contains(category, query)

simple_search(xs, search_query) ==
    SelectSeq(xs, LAMBDA t : matches_query(t, search_query))

\* one character of the class is read from each position of P
StepClass(s, P, class) ==
    { p + 1 : p \in { q \in P : q <= Len(s) /\ s[q] \in class } }

\* x? for a character class x
OptionalClass(s, P, class) == P \cup StepClass(s, P, class)

\* x{n}
RECURSIVE RepeatClass(_, _, _, _)
RepeatClass(s, P, class, n) ==
    IF n = 0 THEN P
    ELSE RepeatClass(s, StepClass(s, P, class), class, n - 1)

\* x+
RECURSIVE PlusClass(_, _, _)
PlusClass(s, P, class) ==
    LET Q == StepClass(s, P, class)
    IN  IF Q = {} THEN {} ELSE Q \cup PlusClass(s, Q, class)

\* a literal text
Literal(s, P, lit) ==
    { p + Len(lit) :
        p \in { q \in P : /\ q + Len(lit) - 1 <= Len(s)
                          /\ SubSeq(s, q, q + Len(lit) - 1) = lit } }

Range(f) == { f[i] : i \in DOMAIN f }

Whitespace == { " ", "\t", "\n", "\r" }              \* \s

Separators == Whitespace \cup { "-" }                 \* [\s\-]

Digits == Range(DigitChars)                          \* \d

CapitalLetters == Range(UpperLetters)                \* [А-Я]

SmallLetters == Range(LowerLetters)                  \* [а-я]

\* (\+7|8)[\s\-]?\(?\d{3}\)?[\s\-]?\d{3}[\s\-]?\d{2}[\s\-]?\d{2}
phone_pattern(s) ==
    \E i \in 1..Len(s) :
        LET p1 == Literal(s, {i}, <<"+", "7">>) \cup Literal(s, {i}, <<"8">>)
            p2 == OptionalClass(s, OptionalClass(s, p1, Separators), { "(" })
            p3 == OptionalClass(s, RepeatClass(s, p2, Digits, 3), { ")" })
            p4 == RepeatClass(s, OptionalClass(s, p3, Separators), Digits, 3)
            p5 == RepeatClass(s, OptionalClass(s, p4, Separators), Digits, 2)
            p6 == RepeatClass(s, OptionalClass(s, p5, Separators), Digits, 2)
        IN  p6 # {}

has_phone_number(transaction) ==
    phone_pattern(StrOfField(transaction.description, <<>>))

search_phone_numbers(xs) == SelectSeq(xs, has_phone_number)

\* [А-Я][а-я]+\s[А-Я]\.
name_pattern(s) ==
    \E i \in 1..Len(s) :
        LET p1 == PlusClass(s, StepClass(s, {i}, CapitalLetters), SmallLetters)
            p2 == StepClass(s, StepClass(s, p1, Whitespace), CapitalLetters)
        IN  StepClass(s, p2, { "." }) # {}

\* mutant of is_person_transfer: the category is not looked at
is_person_transfer_AnyCategory(transaction) ==
    name_pattern(StrOfField(transaction.description, <<>>))

is_person_transfer(transaction) ==
    /\ StrOfField(transaction.category, <<>>) = Transfers
    /\ name_pattern(StrOfField(transaction.description, <<>>))

search_person_transfers(xs) == SelectSeq(xs, is_person_transfer)

(***************************************************************************)
(* reports.py: the three reports over the trailing quarter.  The frame is  *)
(* the one load_transactions returns: "Дата операции" is datetime64 (a     *)
(* Timestamp or NaT), "Сумма операции" is numeric (a number or NaN),       *)
(* "Категория" and "Описание" hold a text or NaN (kind "none").  A         *)
(* DataFrame a report returns is [columns, rows], each row the tuple of    *)
(* its column values; the value of a call is [raised, frame].  Column and  *)
(* weekday names are transliterated.                                       *)
(***************************************************************************)
QuarterDays == 90

DataFrame(columns, rows) == [columns |-> columns, rows |-> rows]

\* pd.DataFrame()
EmptyDataFrame == DataFrame(<<>>, <<>>)

Returned(frame) == [raised |-> "", frame |-> frame]

ReportRaised(e) == [raised |-> e, frame |-> EmptyDataFrame]

\* mutant of trailing_quarter: the window is 120 days long
trailing_quarter_LongerWindow(date, now) ==
    LET p == IF date.kind = "str" THEN StrptimeIsoDate(date.s) ELSE NoParse
        end_date == IF date.kind = "none" THEN now ELSE p.dt
    IN  IF date.kind \notin { "none", "str" } THEN Raised("TypeError")
        ELSE IF date.kind = "str" /\ ~p.ok THEN Raised("ValueError")
        ELSE IF OrdOf(end_date) - 120 < 1 THEN Raised("OverflowError")
        ELSE Window(PlusDays(end_date, -120), end_date)

\* end_date and start_date of a report: [raised, start, end].  date is None
\* (the anchor is datetime.now()) or the argument handed to strptime
trailing_quarter(date, now) ==
    LET p == IF date.kind = "str" THEN StrptimeIsoDate(date.s) ELSE NoParse
        end_date == IF date.kind = "none" THEN now ELSE p.dt
    IN  IF date.kind \notin { "none", "str" } THEN Raised("TypeError")
        ELSE IF date.kind = "str" /\ ~p.ok THEN Raised("ValueError")
        ELSE IF OrdOf(end_date) - QuarterDays < 1 THEN Raised("OverflowError")
        ELSE Window(PlusDays(end_date, -QuarterDays), end_date)

\* mutant of QuarterMask: the start bound is exclusive
QuarterMask_ExclusiveStart(rows, start_date, end_date) ==
    [i \in 1..Len(rows) |->
        /\ SeriesGe(rows[i].date, start_date)
        /\ rows[i].date.dt # start_date
        /\ SeriesLe(rows[i].date, end_date)]

\* (col >= start_date) & (col <= end_date)
QuarterMask(rows, start_date, end_date) ==
    [i \in 1..Len(rows) |->
        SeriesGe(rows[i].date, start_date) /\ SeriesLe(rows[i].date, end_date)]

\* col == category: False for a missing category
CategoryMask(rows, category) ==
    [i \in 1..Len(rows) |->
        rows[i].category.kind = "str" /\ rows[i].category.s = category]

MaskAnd(m1, m2) == [i \in DOMAIN m1 |-> m1[i] /\ m2[i]]

\* the float of the "Сумма операции" cell
AmountOf(row) == IF row.amount.kind = "nan" THEN NaN ELSE Fl(row.amount.num)

\* Series.sum(): NaN is skipped, the sum of no value is 0
RECURSIVE SeriesSum(_)
SeriesSum(values) ==
    IF values = <<>> THEN Fl(0)
    ELSE LET n == Len(values)
             front == SeriesSum(SubSeq(values, 1, n - 1))
         IN  IF values[n].nan THEN front ELSE FAdd(front, values[n])

\* Series.mean(): NaN is skipped, the mean of no value is NaN.  The amounts
\* of the modelled frames are chosen so that the quotient is exact
SeriesMean(values) ==
    LET present == SelectSeq(values, LAMBDA x : ~x.nan)
    IN  IF present = <<>> THEN NaN
        ELSE Fl(FloorDiv(SeriesSum(present).v, Len(present)))

\* dt.to_period("M") as the number of the month since year 0
PeriodOf(row) == YearOf(row.date.dt) * 12 + (MonthOf(row.date.dt) - 1)

\* the decimal digits of n, zero-padded to the width
RECURSIVE ZeroPadded(_, _)
ZeroPadded(n, width) ==
    IF width = 0 THEN <<>>
    ELSE Append(ZeroPadded(n \div 10, width - 1), DigitChars[(n % 10) + 1])

\* Period.astype(str): "YYYY-MM"
PeriodStr(p) == ZeroPadded(p \div 12, 4) \o <<"-">> \o ZeroPadded((p % 12) + 1, 2)

\* mutant of SortedKeys: the keys in descending order
RECURSIVE SortedKeys_Descending(_)
SortedKeys_Descending(S) ==
    IF S = {} THEN <<>>
    ELSE LET greatest == CHOOSE k \in S : \A other \in S : k >= other
         IN  <<greatest>> \o SortedKeys_Descending(S \ {greatest})

\* the keys of a groupby in ascending order
RECURSIVE SortedKeys(_)
SortedKeys(S) ==
    IF S = {} THEN <<>>
    ELSE LET least == CHOOSE k \in S : \A other \in S : k <= other
         IN  <<least>> \o SortedKeys(S \ {least})

\* |sum of the amounts|: groupby(..)["Сумма операции"].sum().abs()
monthly_spending(filtered_data) ==
    LET months == SortedKeys({ PeriodOf(filtered_data[i]) : i \in 1..Len(filtered_data) })
    IN  [k \in 1..Len(months) |->
            LET group == SelectSeq(filtered_data, LAMBDA r : PeriodOf(r) = months[k])
            IN  <<PeriodStr(months[k]),
                  FAbs(SeriesSum([i \in 1..Len(group) |-> AmountOf(group[i])]))>>]

\* mutant of spending_by_category: a row of value 0 stands for no record
spending_by_category_ZeroRow(rows, category, date, now) ==
    LET w == trailing_quarter(date, now)
        filtered_data ==
            BoolIndex(rows, MaskAnd(QuarterMask(rows, w.start, w.end),
                                    CategoryMask(rows, category)))
    IN  IF w.raised # "" THEN ReportRaised(w.raised)
        ELSE IF filtered_data = <<>>
             THEN Returned(DataFrame(<<"Month", "Amount">>, << <<<<>>, Fl(0)>> >>))
        ELSE Returned(DataFrame(<<"Month", "Amount">>,
                                monthly_spending(filtered_data)))

spending_by_category(rows, category, date, now) ==
    LET w == trailing_quarter(date, now)
        filtered_data ==
            BoolIndex(rows, MaskAnd(QuarterMask(rows, w.start, w.end),
                                    CategoryMask(rows, category)))
    IN  IF w.raised # "" THEN ReportRaised(w.raised)
        ELSE IF filtered_data = <<>> THEN Returned(EmptyDataFrame)
        ELSE Returned(DataFrame(<<"Month", "Amount">>,
                                monthly_spending(filtered_data)))

\* the rows of the window, with the column "Сумма" = |amount|
filtered_data_of(rows, w) == BoolIndex(rows, QuarterMask(rows, w.start, w.end))

\* Series.abs() of the amounts of a group
\* mutant of AbsAmounts: the amounts with their signs
AbsAmounts_Signed(group) == [i \in 1..Len(group) |-> AmountOf(group[i])]

AbsAmounts(group) == [i \in 1..Len(group) |-> FAbs(AmountOf(group[i]))]

\* weekday_mapping[dt.day_name()], Monday first
WeekdayNames ==
    <<"Ponedelnik", "Vtornik", "Sreda", "Chetverg", "Pyatnitsa", "Subbota",
      "Voskresenye">>

\* the weekdays in the order groupby sorts their Russian names: Воскресенье,
\* Вторник, Понедельник, Пятница, Среда, Суббота, Четверг
WeekdaysByName == <<6, 1, 0, 4, 2, 5, 3>>

WeekdayOfRow(row) == Weekday(row.date.dt)

WeekdayName(k) == WeekdayNames[k + 1]

\* groupby("День недели")["Сумма"].mean().reset_index(): one row per weekday
\* that has a record, in the order of the sorted names
weekday_avg_spending(filtered_data) ==
    LET present == SelectSeq(WeekdaysByName, LAMBDA k :
                       \E i \in 1..Len(filtered_data) :
                           WeekdayOfRow(filtered_data[i]) = k)
    IN  [j \in 1..Len(present) |->
            LET group == SelectSeq(filtered_data,
                                   LAMBDA r : WeekdayOfRow(r) = present[j])
            IN  <<WeekdayName(present[j]), SeriesMean(AbsAmounts(group))>>]

spending_by_weekday(rows, date, now) ==
    LET w == trailing_quarter(date, now)
        filtered_data == filtered_data_of(rows, w)
    IN  IF w.raised # "" THEN ReportRaised(w.raised)
        ELSE IF filtered_data = <<>> THEN Returned(EmptyDataFrame)
        ELSE Returned(DataFrame(<<"Weekday", "Sum">>,
                                weekday_avg_spending(filtered_data)))

\* mutant of DayType: only Sunday is a rest day
DayType_SundayOnly(row) ==
    IF Weekday(row.date.dt) >= 6 THEN "Vykhodnoy" ELSE "Rabochiy"

\* "Выходной" if x >= 5 else "Рабочий"
DayType(row) == IF Weekday(row.date.dt) >= 5 THEN "Vykhodnoy" ELSE "Rabochiy"

\* "Выходной" sorts before "Рабочий"
DayTypesByName == <<"Vykhodnoy", "Rabochiy">>

\* groupby("День типа")["Сумма"].mean().reset_index()
workday_avg_spending(filtered_data) ==
    LET present == SelectSeq(DayTypesByName, LAMBDA k :
                       \E i \in 1..Len(filtered_data) : DayType(filtered_data[i]) = k)
    IN  [j \in 1..Len(present) |->
            LET group == SelectSeq(filtered_data, LAMBDA r : DayType(r) = present[j])
            IN  <<present[j], SeriesMean(AbsAmounts(group))>>]

spending_by_workday(rows, date, now) ==
    LET w == trailing_quarter(date, now)
        filtered_data == filtered_data_of(rows, w)
    IN  IF w.raised # "" THEN ReportRaised(w.raised)
        ELSE IF filtered_data = <<>> THEN Returned(EmptyDataFrame)
        ELSE Returned(DataFrame(<<"DayType", "Sum">>,
                                workday_avg_spending(filtered_data)))

(***************************************************************************)
(* reports.py: report_decorator(avoid_duplicates=True) as it wraps the     *)
(* three reports.  A file of the disk is [kind, records]: kind "absent",   *)
(* "list" (a JSON list of records), "invalid" (no JSON) or "notlist" (JSON *)
(* that is no list).  A stored record is [content, timestamp, report_type, *)
(* hash]; content is <<columns, row>>.  All timestamps are one value.      *)
(* hash(frozenset(..)) is [content, seed, salt]: equal for equal content   *)
(* within one process (seed is the process's string-hash seed); the hash   *)
(* of a NaN float depends on the interpreter (constant, or derived from    *)
(* the object's address), which the salt stands for.  Collisions of        *)
(* different contents are left out.                                        *)
(***************************************************************************)
MaxNaNHash == 1

ReportNames ==
    { "spending_by_category", "spending_by_weekday", "spending_by_workday" }

\* f"report_{func.__name__}.json"
output_filename(func) ==
    CASE func = "spending_by_category" -> "report_spending_by_category.json"
      [] func = "spending_by_weekday" -> "report_spending_by_weekday.json"
      [] func = "spending_by_workday" -> "report_spending_by_workday.json"

ReportFiles == { output_filename(func) : func \in ReportNames }

AbsentFile == [kind |-> "absent", records |-> <<>>]

ListFile(records) == [kind |-> "list", records |-> records]

NoFiles == [f \in ReportFiles |-> AbsentFile]

Timestamp == "now"

\* the value of a row <<key, value>> is a NaN float
HasNaN(row) == row[2].nan

record_hash(record_content, seed, salt) ==
    [content |-> record_content, seed |-> seed,
     salt |-> IF HasNaN(record_content[2]) THEN salt ELSE 0]

\* result.to_dict("records") with "_timestamp", "_report_type" and "_hash"
new_records(result, func, seed, salt) ==
    [i \in 1..Len(result.rows) |->
        [content |-> <<result.columns, result.rows[i]>>,
         timestamp |-> Timestamp,
         report_type |-> func,
         hash |-> record_hash(<<result.columns, result.rows[i]>>, seed, salt)]]

\* json.load of the file, [] when it is missing, unreadable or no list
existing_data(file) == IF file.kind = "list" THEN file.records ELSE <<>>

\* the new records whose hash is not stored yet
without_duplicates(records, existing) ==
    IF existing = <<>> THEN records
    ELSE SelectSeq(records, LAMBDA r :
             \A i \in 1..Len(existing) : existing[i].hash # r.hash)

\* mutant of combined_data: the stored records are dropped
combined_data_Overwrite(existing, records) == records

\* existing_data + new_records
combined_data(existing, records) == existing \o records

\* wrapper of a report whose call returned result (a DataFrame): the value
\* returned to the caller and the file after the call
wrapper(func, result, file, seed, salt) ==
    IF result.rows = <<>> THEN [result |-> result, file |-> file]
    ELSE LET existing == existing_data(file)
             records == without_duplicates(new_records(result, func, seed, salt),
                                           existing)
         IN  IF records # <<>>
             THEN [result |-> result,
                   file |-> ListFile(combined_data(existing, records))]
             ELSE [result |-> result, file |-> file]

(***************************************************************************)
(* utils.py: convert_dataframe_to_dict_list.  df.where(pd.notnull(df),     *)
(* None) puts None for NaN in a text column; whether a NaN of the numeric  *)
(* column and a NaT of the date column become None or stay depends on the  *)
(* pandas version (nulls_to_none).                                         *)
(***************************************************************************)
CleanCell(v, nulls_to_none) ==
    IF v.kind \in { "nan", "nat" } /\ nulls_to_none THEN NoneVal ELSE v

convert_dataframe_to_dict_list(rows, nulls_to_none) ==
    [i \in 1..Len(rows) |->
        Txn(CleanCell(rows[i].date, nulls_to_none),
            CleanCell(rows[i].amount, nulls_to_none),
            rows[i].category, rows[i].description)]

(***************************************************************************)
(* main.py: the frame is loaded and converted, then the reports and the    *)
(* services are called on it (in the model in any order, any number of     *)
(* times).  The rows lie around the bounds of the quarter that ends at the *)
(* report date 2021-12-31 00:00:00 and starts at 2021-10-02 00:00:00.      *)
(***************************************************************************)
Supermarkets == <<"S", "u", "p", "e", "r", "m", "a", "r", "k", "e", "t", "s">>                          \* "Супермаркеты"

Magnit == <<"M", "a", "g", "n", "i", "t">>                                      \* "Магнит"

ReportDate == StrVal(<<"2", "0", "2", "1", "-", "1", "2", "-", "3", "1">>)

\* datetime.now(), read only when the date argument is None
Today == MkDatetime(2021, 12, 31, 12 * 3600)

ReportCategories == { Supermarkets, Food }

MainRows ==
    { Row(DtVal(MkDatetime(2021, 12, 31, 0)), StrVal(Supermarkets),
          NumVal(-120 * Scale), StrVal(Magnit)),                 \* at the end
      Row(DtVal(MkDatetime(2021, 12, 31, 1)), StrVal(Supermarkets),
          NumVal(-48 * Scale), StrVal(Magnit)),                  \* 1 s later
      Row(DtVal(MkDatetime(2021, 10, 2, 0)), StrVal(Supermarkets),
          NumVal(-36 * Scale), StrVal(PlainText)),               \* at the start, a Saturday
      Row(DtVal(MkDatetime(2021, 10, 1, SecondsPerDay - 1)), StrVal(Supermarkets),
          NumVal(-72 * Scale), StrVal(PlainText)),               \* 1 s earlier
      Row(DtVal(MkDatetime(2021, 12, 15, 12 * 3600)), StrVal(Supermarkets),
          NumVal(240 * Scale), StrVal(<<"R", "e", "f", "u", "n", "d">>)),               \* a positive amount
      Row(NatVal, StrVal(Supermarkets), NumVal(-60 * Scale), StrVal(Magnit)),
      Row(DtVal(MkDatetime(2021, 12, 18, 10 * 3600)), StrVal(Food),
          NumVal(-24 * Scale), StrVal(<<"C", "a", "f", "e", " ", "+", "7", " ", "9", "2", "1", " ", "1", "1", "1", "-", "2", "2", "-", "3", "3">>)),
      Row(DtVal(MkDatetime(2021, 12, 20, 9 * 3600)), StrVal(Supermarkets),
          NanVal, NoneVal),                                      \* no amount, a Monday
      Row(DtVal(MkDatetime(2021, 12, 21, 9 * 3600)), StrVal(Transfers),
          NumVal(-600 * Scale), StrVal(<<"I", "v", "a", "n", " ", "P", ".">>)) }

\* the rows a frame of the model may hold any number of; of the other rows
\* of MainRows it holds at most one
CoreRows ==
    { Row(DtVal(MkDatetime(2021, 12, 31, 0)), StrVal(Supermarkets),
          NumVal(-120 * Scale), StrVal(Magnit)),
      Row(DtVal(MkDatetime(2021, 12, 18, 10 * 3600)), StrVal(Food),
          NumVal(-24 * Scale), StrVal(<<"C", "a", "f", "e", " ", "+", "7", " ", "9", "2", "1", " ", "1", "1", "1", "-", "2", "2", "-", "3", "3">>)) }

InputFrame(rows) ==
    /\ \A i \in 1..Len(rows) : rows[i] \in MainRows
    /\ Cardinality({ i \in 1..Len(rows) : rows[i] \notin CoreRows }) <= 1

InitMain ==
    /\ data = <<>>
    /\ transactions = <<>>
    /\ hasDateColumn = TRUE
    /\ disk = NoFiles
    /\ hashSeed = 0
    /\ ret = NoCall

\* load_transactions and convert_dataframe_to_dict_list, row by row, before
\* the first call
LoadRow ==
    /\ ret = NoCall
    /\ Len(transactions) < MaxRows
    /\ \E r \in MainRows, nulls_to_none \in BOOLEAN :
          /\ InputFrame(Append(transactions, r))
          /\ transactions' = Append(transactions, r)
          /\ data' = convert_dataframe_to_dict_list(Append(transactions, r),
                                                    nulls_to_none)
    /\ UNCHANGED <<hasDateColumn, disk, hashSeed, ret>>

\* the number of different hashes of NaN-valued rows stored in the file
StoredNaNHashes(file) ==
    Cardinality({ file.records[i].hash.salt :
                    i \in { j \in 1..Len(file.records) :
                              HasNaN(file.records[j].content[2]) } })

\* a decorated report is called: an exception of the report leaves the
\* wrapper, else the wrapper stores the result and returns it.  The hash of
\* a NaN-valued row is one of those stored or a new one; the new ones are
\* numbered in the order they appear, up to MaxNaNHash
CallDecorated(func, args, result) ==
    IF result.raised # ""
    THEN /\ ret' = Call(func, args, result)
         /\ disk' = disk
    ELSE \E salt \in 0..MaxNaNHash :
            /\ salt <= StoredNaNHashes(disk[output_filename(func)])
            /\ LET out == wrapper(func, result.frame, disk[output_filename(func)],
                                  hashSeed, salt)
               IN  /\ ret' = Call(func, args, Returned(out.result))
                   /\ disk' = [disk EXCEPT ![output_filename(func)] = out.file]

CallSpendingByCategory ==
    /\ \E category \in ReportCategories :
          CallDecorated("spending_by_category", <<category, ReportDate>>,
              spending_by_category(transactions, category, ReportDate, Today))
    /\ UNCHANGED <<data, transactions, hasDateColumn, hashSeed>>

CallSpendingByWeekday ==
    /\ CallDecorated("spending_by_weekday", <<ReportDate>>,
           spending_by_weekday(transactions, ReportDate, Today))
    /\ UNCHANGED <<data, transactions, hasDateColumn, hashSeed>>

CallSpendingByWorkday ==
    /\ CallDecorated("spending_by_workday", <<ReportDate>>,
           spending_by_workday(transactions, ReportDate, Today))
    /\ UNCHANGED <<data, transactions, hasDateColumn, hashSeed>>

CallCashbackAnalysis ==
    /\ ret' = Call("profitable_cashback_categories", <<2021, 12>>,
                   profitable_cashback_categories(data, 2021, 12))
    /\ UNCHANGED <<data, transactions, hasDateColumn, disk, hashSeed>>

CallInvestmentAmount ==
    /\ ret' = Call("investment_bank", <<<<"2", "0", "2", "1", "-", "1", "2">>, 10>>,
                   investment_bank(<<"2", "0", "2", "1", "-", "1", "2">>, data, 10))
    /\ UNCHANGED <<data, transactions, hasDateColumn, disk, hashSeed>>

CallSimpleSearch ==
    /\ ret' = Call("simple_search", <<Magnit>>, simple_search(data, Magnit))
    /\ UNCHANGED <<data, transactions, hasDateColumn, disk, hashSeed>>

CallSearchPhoneNumbers ==
    /\ ret' = Call("search_phone_numbers", <<>>, search_phone_numbers(data))
    /\ UNCHANGED <<data, transactions, hasDateColumn, disk, hashSeed>>

CallSearchPersonTransfers ==
    /\ ret' = Call("search_person_transfers", <<>>, search_person_transfers(data))
    /\ UNCHANGED <<data, transactions, hasDateColumn, disk, hashSeed>>

NextMain ==
    \/ LoadRow
    \/ CallSpendingByCategory
    \/ CallSpendingByWeekday
    \/ CallSpendingByWorkday
    \/ CallCashbackAnalysis
    \/ CallInvestmentAmount
    \/ CallSimpleSearch
    \/ CallSearchPhoneNumbers
    \/ CallSearchPersonTransfers

SpecMain == InitMain /\ [][NextMain]_vars

(***************************************************************************)
(* Vocabulary of the claims about the reports.                             *)
(***************************************************************************)
ReportCall == ret.fn \in ReportNames /\ ret.value.raised = ""

CategoryCall == ret.fn = "spending_by_category" /\ ret.value.raised = ""

\* the anchor instant of the call: its last argument
Anchor == StrptimeIsoDate(ret.args[Len(ret.args)].s).dt

\* anchor - 90 days <= d <= anchor, d present
InQuarter(row) == InWindow(row, PlusDays(Anchor, -90), Anchor)

\* the records the call is to aggregate: those of the quarter and, for
\* spending_by_category, of the requested category
Counted(row) ==
    /\ InQuarter(row)
    /\ ret.fn = "spending_by_category" => row.category = StrVal(ret.args[1])

\* the key of the result row a record belongs to
RowKey(row) ==
    CASE ret.fn = "spending_by_category" -> PeriodStr(PeriodOf(row))
      [] ret.fn = "spending_by_weekday" -> WeekdayName(Weekday(row.date.dt))
      [] ret.fn = "spending_by_workday" -> DayType(row)

\* the report of the call applied to another frame
ReportOf(fn, args, rows) ==
    CASE fn = "spending_by_category" ->
             spending_by_category(rows, args[1], args[2], Today)
      [] fn = "spending_by_weekday" -> spending_by_weekday(rows, args[1], Today)
      [] fn = "spending_by_workday" -> spending_by_workday(rows, args[1], Today)

\* the sum of |amount| over the records, a record without amount adding 0
RECURSIVE SumOfAbsolute(_)
SumOfAbsolute(rows) ==
    IF rows = <<>> THEN 0
    ELSE (IF Head(rows).amount.kind = "num" THEN Abs(Head(rows).amount.num) ELSE 0)
         + SumOfAbsolute(Tail(rows))

(***************************************************************************)
(* C3.  For every month row emitted by spending_by_category, the value     *)
(* equals the sum, over that month's in-window records of the requested    *)
(* category, of the absolute value of each amount (taken per record before *)
(* summing), for any mix of negative and positive amounts in the month.    *)
(***************************************************************************)
C3_SumOfAbsoluteAmounts ==
    CategoryCall =>
        \A k \in 1..Len(ret.value.frame.rows) :
            LET row == ret.value.frame.rows[k]
                month == SelectSeq(transactions,
                             LAMBDA r : Counted(r) /\ RowKey(r) = row[1])
            IN  row[2] = Fl(SumOfAbsolute(month))

(***************************************************************************)
(* C4.  Each of spending_by_category, spending_by_weekday and              *)
(* spending_by_workday aggregates exactly the records whose operation date *)
(* d satisfies anchor - 90 days <= d <= anchor (both bounds inclusive): a  *)
(* record outside the window or without operation date contributes to no   *)
(* row (the result is that of the frame without such records), and every   *)
(* record of the window has its row in the result.                         *)
(***************************************************************************)
C4_ExactlyTheQuarter ==
    ReportCall =>
        /\ ret.value = ReportOf(ret.fn, ret.args, SelectSeq(transactions, InQuarter))
        /\ { ret.value.frame.rows[k][1] : k \in 1..Len(ret.value.frame.rows) }
             = { RowKey(transactions[i]) :
                   i \in { j \in 1..Len(transactions) : Counted(transactions[j]) } }

\* a record dated exactly at a bound of the window is aggregated next to a
\* record that is outside the window or has no date
C4_Witness ==
    /\ ReportCall
    /\ Len(ret.value.frame.rows) = 1
    /\ \E i \in 1..Len(transactions) :
          /\ transactions[i].date.kind = "datetime"
          /\ transactions[i].date.dt \in { PlusDays(Anchor, -90), Anchor }
          /\ Counted(transactions[i])
    /\ \E i \in 1..Len(transactions) : ~InQuarter(transactions[i])

(***************************************************************************)
(* C8.  Calling any of the three report functions (with an explicit anchor *)
(* date) or the five service functions twice with identical input returns  *)
(* identical output, and no call changes any state outside its return      *)
(* value: the input collection is not mutated and no file on disk is       *)
(* created or modified.  What the code guarantees instead of the last: the  *)
(* value of a call is a function of its arguments and its input alone, the *)
(* input is not mutated, a service touches no file, and a report call      *)
(* changes at most its own report file, only when its result has rows, and *)
(* only by appending records of that result to the stored list.            *)
(***************************************************************************)
CallStep == ret'.fn # "none"

SameCallAgain == ret.fn = ret'.fn /\ ret.args = ret'.args

\* the value the function computes from the arguments and the input alone
PureValue ==
    CASE ret.fn \in ReportNames -> ReportOf(ret.fn, ret.args, transactions)
      [] ret.fn = "profitable_cashback_categories" ->
             profitable_cashback_categories(data, ret.args[1], ret.args[2])
      [] ret.fn = "investment_bank" -> investment_bank(ret.args[1], data, ret.args[2])
      [] ret.fn = "simple_search" -> simple_search(data, ret.args[1])
      [] ret.fn = "search_phone_numbers" -> search_phone_numbers(data)
      [] ret.fn = "search_person_transfers" -> search_person_transfers(data)
      [] OTHER -> ret.value

IsPrefix(a, b) == Len(a) <= Len(b) /\ SubSeq(b, 1, Len(a)) = a

\* the file changed by the report call of this step, by an append of records
\* of the returned frame
AppendedByReport(f) ==
    /\ ret'.fn \in ReportNames
    /\ f = output_filename(ret'.fn)
    /\ ret'.value.raised = ""
    /\ ret'.value.frame.rows # <<>>
    /\ disk'[f].kind = "list"
    /\ IsPrefix(disk[f].records, disk'[f].records)
    /\ Len(disk'[f].records) > Len(disk[f].records)
    /\ \A i \in (Len(disk[f].records) + 1)..Len(disk'[f].records) :
          /\ disk'[f].records[i].report_type = ret'.fn
          /\ \E k \in 1..Len(ret'.value.frame.rows) :
                disk'[f].records[i].content =
                    <<ret'.value.frame.columns, ret'.value.frame.rows[k]>>

C8_Original ==
    [][CallStep =>
          /\ SameCallAgain => ret'.value = ret.value
          /\ transactions' = transactions
          /\ data' = data
          /\ disk' = disk]_vars

C8_PureValueAppendOnlyReportFile ==
    /\ [](ret.value = PureValue)
    /\ [][CallStep =>
             /\ SameCallAgain => ret'.value = ret.value
             /\ transactions' = transactions
             /\ data' = data
             /\ ret'.fn \notin ReportNames => disk' = disk
             /\ \A f \in ReportFiles : disk'[f] # disk[f] => AppendedByReport(f)]_vars

\* the report file holds more records than the call returned rows: the rows
\* were appended to the records an earlier call had stored
C8_Witness ==
    /\ CategoryCall
    /\ ret.value.frame.rows # <<>>
    /\ disk[output_filename(ret.fn)].kind = "list"
    /\ Len(disk[output_filename(ret.fn)].records) > Len(ret.value.frame.rows)
    /\ \E i \in 1..Len(disk[output_filename(ret.fn)].records) :
          disk[output_filename(ret.fn)].records[i].content[2] = ret.value.frame.rows[1]

(***************************************************************************)
(* C11.  In profitable_cashback_categories every qualifying expense whose  *)
(* category is missing (the key is absent from the record, or its value is *)
(* null) is accumulated under the single bucket "Другое", and under no     *)
(* other key: the bucket is a key of the result, and every key is the      *)
(* bucket or the category of a qualifying expense that has one.  (Stated   *)
(* for the collections without a NaN amount.)                              *)
(***************************************************************************)
MissingCategory(t) == t.category.kind \in { "absent", "none" }

C11_MissingCategoryIsOther ==
    (CashbackCall /\ ~HasNaNAmount(data)) =>
        LET Q == { i \in 1..Len(data) : IsExpense(data[i], ret.args[1], ret.args[2]) }
            M == { i \in Q : MissingCategory(data[i]) }
        IN  M # {} =>
              /\ OtherCategory \in DOMAIN ret.value
              /\ DOMAIN ret.value \subseteq
                     {OtherCategory} \cup { data[i].category.s : i \in Q \ M }

(***************************************************************************)
(* services.py: investment_bank called with any month object.  Line 59     *)
(* calls month.split("-") inside try ... except ValueError: a month that   *)
(* is None has no split, and the AttributeError is not caught.             *)
(***************************************************************************)
Outcome(raised, value) == [raised |-> raised, value |-> value]

investment_bank_call(month, xs, limit) ==
    IF month.kind = "none" THEN Outcome("AttributeError", Fl(0))
    ELSE Outcome("", investment_bank(month.s, xs, limit))

\* month arguments: the texts of InvestmentInputs, a lone year, and None
MonthInputs ==
    { StrVal(a[1]) : a \in InvestmentInputs }
        \cup { StrVal(<<"2", "0", "2", "3">>), StrVal(<<"2", "0", "2", "3", "-">>), StrVal(<<"-", "1", "0">>), NoneVal }

LimitInputs == { a[2] : a \in InvestmentInputs }

CallInvestmentBankAnyMonth ==
    /\ \E month \in MonthInputs, limit \in LimitInputs :
          ret' = Call("investment_bank", <<month, limit>>,
                      investment_bank_call(month, data, limit))
    /\ UNCHANGED <<data, transactions, hasDateColumn, disk, hashSeed>>

NextMonth ==
    \/ AddTransaction
    \/ CallInvestmentBankAnyMonth

SpecMonth == Init /\ [][NextMonth]_vars

\* the month argument is two integer parts joined by one '-'
TwoIntegerParts(month) ==
    /\ month.kind = "str"
    /\ Len(Split(month.s, "-")) = 2
    /\ \A i \in 1..2 : IntParses(Split(month.s, "-")[i])

(***************************************************************************)
(* C12.  For every month argument that is not two integer parts joined by  *)
(* one '-' ('2023/10', '', '2023', '2023-10-05', 'abcd-ef', or None),      *)
(* investment_bank returns 0.0 for any collection and limit and raises no  *)
(* exception.  The code does so for every malformed text, but a None month *)
(* raises AttributeError.                                                  *)
(***************************************************************************)
C12_MalformedMonthGivesZero ==
    (ret.fn = "investment_bank" /\ ~TwoIntegerParts(ret.args[1])) =>
        ret.value = Outcome("", Fl(0))

\* what the code does: 0.0 for every malformed text of the month
C12_MalformedTextGivesZero ==
    (ret.fn = "investment_bank" /\ ret.args[1].kind = "str"
        /\ ~TwoIntegerParts(ret.args[1])) =>
        ret.value = Outcome("", Fl(0))

\* a malformed text and a collection with an October 2023 expense
C12_TextReached ==
    /\ ret.fn = "investment_bank"
    /\ ret.args[1] = StrVal(<<"2", "0", "2", "3", "-", "1", "0", "-", "0", "5">>)
    /\ \E i \in 1..Len(data) : IsExpense(data[i], 2023, 10)
    /\ ret.value = Outcome("", Fl(0))

(***************************************************************************)
(* The anchor-date parameters called with each representation of an        *)
(* instant.  reports.py:98, 123, 158 hand the date to                      *)
(* datetime.strptime(date, "%Y-%m-%d") and utils.py:77 hands date_str to   *)
(* datetime.strptime(date_str, "%Y-%m-%d %H:%M:%S"); strptime raises       *)
(* TypeError for an argument that is not a str.                            *)
(***************************************************************************)
get_date_range_call(date_str, period) ==
    IF date_str.kind # "str" THEN Raised("TypeError")
    ELSE get_date_range(date_str.s, period)

\* the last day of 2021 as a date text, as a date-time text, as a native
\* datetime, and no date at all
AnchorInputs ==
    { ReportDate, StrVal(<<"2", "0", "2", "1", "-", "1", "2", "-", "3", "1", " ", "0", "0", ":", "0", "0", ":", "0", "0">>),
      DtVal(MkDatetime(2021, 12, 31, 0)), NoneVal }

CallReportWithAnchor ==
    /\ \E date \in AnchorInputs :
          \/ \E category \in ReportCategories :
                CallDecorated("spending_by_category", <<category, date>>,
                    spending_by_category(transactions, category, date, Today))
          \/ CallDecorated("spending_by_weekday", <<date>>,
                 spending_by_weekday(transactions, date, Today))
          \/ CallDecorated("spending_by_workday", <<date>>,
                 spending_by_workday(transactions, date, Today))
    /\ UNCHANGED <<data, transactions, hasDateColumn, hashSeed>>

CallGetDateRangeWithAnchor ==
    /\ \E date_str \in AnchorInputs, period \in PeriodInputs :
          ret' = Call("get_date_range", <<date_str, period>>,
                      get_date_range_call(date_str, period))
    /\ UNCHANGED <<data, transactions, hasDateColumn, disk, hashSeed>>

\* the frame of the reports gets one more of the rows dated in the quarter
LoadQuarterRow ==
    /\ ret = NoCall
    /\ Len(transactions) < MaxRows
    /\ \E r \in CoreRows : transactions' = Append(transactions, r)
    /\ UNCHANGED <<data, hasDateColumn, disk, hashSeed, ret>>

NextAnchor ==
    \/ LoadQuarterRow
    \/ CallReportWithAnchor
    \/ CallGetDateRangeWithAnchor

SpecAnchor == InitMain /\ [][NextAnchor]_vars

AnchorCall == ret.fn \in ReportNames \cup { "get_date_range" }

\* the anchor argument: date_str of get_date_range, date of a report
AnchorArgument ==
    IF ret.fn = "get_date_range" THEN ret.args[1] ELSE ret.args[Len(ret.args)]

\* a 'YYYY-MM-DD HH:MM:SS' text or a native datetime
IsReferenceInstant(a) ==
    \/ a.kind = "datetime"
    \/ a.kind = "str" /\ StrptimeIsoDatetime(a.s).ok

(***************************************************************************)
(* C13.  Every anchor-date parameter (date of spending_by_category,        *)
(* spending_by_weekday and spending_by_workday, date_str of                *)
(* get_date_range) accepts a reference instant given as a                  *)
(* 'YYYY-MM-DD HH:MM:SS' text or as a native datetime and produces a       *)
(* result, not an error, for both.  The code does not: the reports parse   *)
(* "%Y-%m-%d" only, and no parameter takes a datetime.                     *)
(***************************************************************************)
C13_AnchorAcceptsBothRepresentations ==
    (AnchorCall /\ IsReferenceInstant(AnchorArgument)) => ret.value.raised = ""

\* what the code accepts: 'YYYY-MM-DD' (or None) for the reports and
\* 'YYYY-MM-DD HH:MM:SS' for get_date_range
C13_AcceptedRepresentations ==
    /\ (ret.fn \in ReportNames /\ AnchorArgument \in { ReportDate, NoneVal })
          => ret.value.raised = ""
    /\ (ret.fn = "get_date_range" /\ AnchorArgument.kind = "str"
          /\ StrptimeIsoDatetime(AnchorArgument.s).ok) => ret.value.raised = ""
    /\ (AnchorCall /\ AnchorArgument.kind = "datetime")
          => ret.value.raised = "TypeError"
    /\ (ret.fn \in ReportNames /\ AnchorArgument.kind = "str"
          /\ StrptimeIsoDatetime(AnchorArgument.s).ok)
          => ret.value.raised = "ValueError"

(***************************************************************************)
(* views.py: events_page_data.  The result is modelled up to the two       *)
(* fields read from the network (exchange_rates, stock_prices), which do   *)
(* not depend on the transactions.                                         *)
(***************************************************************************)
\* category_expenses.head(7), category_expenses.iloc[7:]
TopCategories == 7

SyntheticCategory == <<"O", "s", "t", "a", "l", "n", "o", "e">>                                                      \* "Остальное"

Cash == <<"C", "a", "s", "h">>                                                                       \* "Наличные"

\* round(x, ndigits) with unit = 10 ** -ndigits in 1/Scale units; a tie goes
\* to the even multiple
RoundTo(x, unit) ==
    IF x.nan THEN NaN
    ELSE LET q == FloorDiv(x.v, unit)
             r == x.v - q * unit
         IN  IF 2 * r < unit THEN Fl(q * unit)
             ELSE IF 2 * r > unit THEN Fl((q + 1) * unit)
             ELSE Fl((q + (q % 2)) * unit)

\* frame.groupby("Категория")[column].sum(): a dict from the categories that
\* are not null to the sums of the values
GroupSums(frame, values) ==
    LET keys == { frame[i].category.s :
                      i \in { j \in 1..Len(frame) : frame[j].category.kind = "str" } }
    IN  [k \in keys |->
            SeriesSum(BoolIndex(values, CategoryMask(frame, k)))]

\* what sort_values(ascending=False).head(n) may keep: n keys with the
\* largest sums, any of the tied keys at the cut (the default sort is not
\* stable)
HeadChoices(sums, n) ==
    IF Cardinality(DOMAIN sums) <= n THEN { DOMAIN sums }
    ELSE { T \in SUBSET DOMAIN sums :
              /\ Cardinality(T) = n
              /\ \A a \in T, b \in DOMAIN sums \ T : sums[a].v >= sums[b].v }

\* {str(cat): round(float(amount), 2) for cat, amount in series.items()}
RoundedDict(sums, keys) == [k \in keys |-> RoundTo(sums[k], Scale \div 100)]

RECURSIVE DictSum(_, _)
DictSum(sums, keys) ==
    IF keys = {} THEN Fl(0)
    ELSE LET k == CHOOSE x \in keys : TRUE
         IN  FAdd(sums[k], DictSum(sums, keys \ {k}))

\* main_categories for one choice of top_categories
main_categories_of(category_expenses, top_categories) ==
    LET other_categories ==
            IF Cardinality(DOMAIN category_expenses) > TopCategories
            THEN DictSum(category_expenses, DOMAIN category_expenses \ top_categories)
            ELSE Fl(0)
        main_categories == RoundedDict(category_expenses, top_categories)
    IN  IF FLt(Fl(0), other_categories)
        THEN DictSet(main_categories, SyntheticCategory,
                     RoundTo(other_categories, Scale \div 100))
        ELSE main_categories

EventsRaised(e) ==
    [raised |-> e, expenses |-> <<>>, income |-> <<>>]

\* the set of the values events_page_data may return
events_page_data(rows, has_column, date_time, period) ==
    LET w == get_date_range(date_time, period)
        filtered_transactions ==
            filter_transactions_by_date(rows, has_column, w.start, w.end)
        expenses_data ==
            SelectSeq(filtered_transactions, LAMBDA r : FLt(AmountOf(r), Fl(0)))
        absolute == AbsAmounts(expenses_data)
        category_expenses == GroupSums(expenses_data, absolute)
        cash_transfers ==
            SelectSeq(expenses_data,
                      LAMBDA r : r.category.kind = "str"
                                    /\ r.category.s \in { Cash, Transfers })
        cash_transfers_by_cat == GroupSums(cash_transfers, AbsAmounts(cash_transfers))
        income_data ==
            SelectSeq(filtered_transactions, LAMBDA r : FLt(Fl(0), AmountOf(r)))
        income_amounts == [i \in 1..Len(income_data) |-> AmountOf(income_data[i])]
        income_by_category == GroupSums(income_data, income_amounts)
    IN  IF w.raised # "" THEN { EventsRaised(w.raised) }
        ELSE { [raised |-> "",
                expenses |->
                    [total |-> RoundTo(SeriesSum(absolute), Scale),
                     main_categories |->
                         main_categories_of(category_expenses, top_categories),
                     cash_transfers |->
                         RoundedDict(cash_transfers_by_cat, DOMAIN cash_transfers_by_cat)],
                income |->
                    [total |-> RoundTo(SeriesSum(income_amounts), Scale),
                     main_categories |->
                         RoundedDict(income_by_category, DOMAIN income_by_category)]] :
               top_categories \in HeadChoices(category_expenses, TopCategories) }

(***************************************************************************)
(* The frame of the events page: any selection, in their order, of these   *)
(* rows of November and December 2023.  Nine expense categories, five of   *)
(* them tied, one with two rows, one named like the synthetic entry; an    *)
(* income, an expense without category, an expense before the month.       *)
(***************************************************************************)
EventCategory(n) == <<"K", DigitChars[n + 1]>>

EventRow(month, day, category, amount) ==
    Row(DtVal(MkDatetime(2023, month, day, 0)), category, NumVal(amount * Scale),
        StrVal(PlainText))

EventRows ==
    << EventRow(12, 1, StrVal(EventCategory(1)), -100),
       EventRow(12, 2, StrVal(EventCategory(2)), -100),
       EventRow(12, 3, StrVal(EventCategory(3)), -100),
       EventRow(12, 4, StrVal(EventCategory(4)), -100),
       EventRow(12, 5, StrVal(Transfers), -100),
       EventRow(12, 6, StrVal(EventCategory(6)), -200),
       EventRow(12, 7, StrVal(EventCategory(7)), -50),
       EventRow(12, 8, StrVal(EventCategory(7)), -300),
       EventRow(12, 9, StrVal(SyntheticCategory), -400),
       EventRow(11, 30, StrVal(EventCategory(8)), -700),
       EventRow(12, 10, StrVal(EventCategory(1)), 500),
       EventRow(12, 11, NoneVal, -150) >>

EventsDateTime == <<"2", "0", "2", "3", "-", "1", "2", "-", "1", "5", " ", "1", "2", ":", "0", "0", ":", "0", "0">>

EventPeriods == { "M", "Y" }

\* the place of the last row of the frame in EventRows
LastLoaded ==
    IF transactions = <<>> THEN 0
    ELSE CHOOSE i \in 1..Len(EventRows) :
            EventRows[i] = transactions[Len(transactions)]

LoadEventRow ==
    /\ ret = NoCall
    /\ \E i \in 1..Len(EventRows) :
          /\ i > LastLoaded
          /\ transactions' = Append(transactions, EventRows[i])
    /\ UNCHANGED <<data, hasDateColumn, disk, hashSeed, ret>>

CallEventsPageData ==
    /\ \E period \in EventPeriods :
          \E value \in events_page_data(transactions, hasDateColumn,
                                        EventsDateTime, period) :
             ret' = Call("events_page_data", <<EventsDateTime, period>>, value)
    /\ UNCHANGED <<data, transactions, hasDateColumn, disk, hashSeed>>

NextEvents ==
    \/ LoadEventRow
    \/ CallEventsPageData

SpecEvents == Init /\ [][NextEvents]_vars

(***************************************************************************)
(* Vocabulary of the claim about the events page.                          *)
(***************************************************************************)
EventsCall == ret.fn = "events_page_data" /\ ret.value.raised = ""

\* the rows of the period with an amount < 0 and a category
CategoryExpenses ==
    LET w == get_date_range(ret.args[1], ret.args[2])
    IN  { i \in 1..Len(transactions) :
            /\ InWindow(transactions[i], w.start, w.end)
            /\ transactions[i].amount.kind = "num"
            /\ transactions[i].amount.num < 0
            /\ transactions[i].category.kind = "str" }

ExpenseCategories == { transactions[i].category.s : i \in CategoryExpenses }

\* the summed |amount| of a category
CategoryTotal(c) ==
    SumOver([i \in 1..Len(transactions) |-> Abs(transactions[i].amount.num)],
            { i \in CategoryExpenses : transactions[i].category.s = c })

RemainderTotal(T) ==
    SumOver([i \in 1..Len(transactions) |-> Abs(transactions[i].amount.num)],
            { i \in CategoryExpenses : transactions[i].category.s \notin T })

(***************************************************************************)
(* C14.  In events_page_data, expenses.main_categories holds the 7 expense *)
(* categories with the largest summed |amount|, each with its own sum, and *)
(* one more entry 'Остальное' equal to the sum of all remaining categories *)
(* exactly when more than 7 distinct expense categories exist and that     *)
(* remainder is > 0; with 7 or fewer categories every category appears     *)
(* with its own sum and no synthetic entry is added.  The code loses the   *)
(* sum of a category that is itself named 'Остальное' and is among the 7.  *)
(***************************************************************************)
C14_TopSevenAndRemainder ==
    EventsCall =>
        LET m == ret.value.expenses.main_categories
            C == ExpenseCategories
        IN  IF Cardinality(C) <= TopCategories
            THEN /\ DOMAIN m = C
                 /\ \A c \in C : m[c] = Fl(CategoryTotal(c))
            ELSE \E T \in SUBSET C :
                    /\ Cardinality(T) = TopCategories
                    /\ \A a \in T, b \in C \ T : CategoryTotal(a) >= CategoryTotal(b)
                    /\ \A c \in T : c \in DOMAIN m /\ m[c] = Fl(CategoryTotal(c))
                    /\ DOMAIN m = T \cup (IF RemainderTotal(T) > 0
                                          THEN { SyntheticCategory } ELSE {})
                    /\ RemainderTotal(T) > 0 =>
                          m[SyntheticCategory] = Fl(RemainderTotal(T))

\* what the code does when no category of the period is named 'Остальное'
C14_WithoutCategoryNamedSynthetic ==
    (EventsCall /\ SyntheticCategory \notin ExpenseCategories)
        => C14_TopSevenAndRemainder

\* more than 7 categories, none named 'Остальное': the entry is the remainder
C14_RemainderReached ==
    /\ EventsCall
    /\ Cardinality(ExpenseCategories) > TopCategories
    /\ SyntheticCategory \notin ExpenseCategories
    /\ SyntheticCategory \in DOMAIN ret.value.expenses.main_categories

\* the calendar months, as numbers, of the records the call aggregates
CountedMonths ==
    { PeriodOf(transactions[i]) :
        i \in { j \in 1..Len(transactions) : Counted(transactions[j]) } }

(***************************************************************************)
(* C15.  spending_by_category(ts, c, anchor) emits exactly one row per     *)
(* calendar month (YYYY-MM) in which at least one in-window record has     *)
(* category exactly equal to c, the rows are in ascending month order, and *)
(* no row is emitted for a month without such a record or for records of   *)
(* any other category.                                                     *)
(***************************************************************************)
C15_OneRowPerMonthAscending ==
    CategoryCall =>
        LET rows == ret.value.frame.rows
        IN  /\ Len(rows) = Cardinality(CountedMonths)
            /\ \A k \in 1..Len(rows) :
                  \E p \in CountedMonths : rows[k][1] = PeriodStr(p)
            /\ \A j, k \in 1..Len(rows) :
                  j < k => \E p, q \in CountedMonths :
                              /\ p < q
                              /\ rows[j][1] = PeriodStr(p)
                              /\ rows[k][1] = PeriodStr(q)

\* the frame holds a December record before an October record of the
\* category, and the result has the October row first
C15_Witness ==
    /\ CategoryCall
    /\ Len(transactions) = 2
    /\ MonthOf(transactions[1].date.dt) = 12
    /\ MonthOf(transactions[2].date.dt) = 10
    /\ Len(ret.value.frame.rows) = 2
    /\ ret.value.frame.rows[1][1] = <<"2", "0", "2", "1", "-", "1", "0">>
    /\ ret.value.frame.rows[2][1] = <<"2", "0", "2", "1", "-", "1", "2">>

\* a record of another category is in the window and has no row
C15_OtherCategoryWitness ==
    /\ CategoryCall
    /\ \E i \in 1..Len(transactions) :
          /\ InQuarter(transactions[i])
          /\ transactions[i].category # StrVal(ret.args[1])
    /\ Len(ret.value.frame.rows) = 1

(***************************************************************************)
(* The reports called without a date on the frame of tests/test_reports.py *)
(* (fixture sample_transactions): five records dated 10, 20, 40, 70 and    *)
(* 100 days before the current instant, which is any noon or midnight of   *)
(* the first quarter of 2024.                                              *)
(***************************************************************************)
Fun == <<"F", "u", "n">>                                                                         \* "Развлечения"

Missing == <<"M", "i", "s", "s", "i", "n", "g">>                                                                 \* "Несуществующая"

sample_transactions(now) ==
    << Row(DtVal(PlusDays(now, -10)), StrVal(Food), NumVal(-500 * Scale), Absent),
       Row(DtVal(PlusDays(now, -20)), StrVal(Food), NumVal(-300 * Scale), Absent),
       Row(DtVal(PlusDays(now, -40)), StrVal(Fun), NumVal(-1000 * Scale), Absent),
       Row(DtVal(PlusDays(now, -70)), StrVal(Food), NumVal(-200 * Scale), Absent),
       Row(DtVal(PlusDays(now, -100)), StrVal(Food), NumVal(-100 * Scale), Absent) >>

NowInputs ==
    { PlusDays(MkDatetime(2024, 1, 1, sec), n) :
        sec \in { 0, 12 * 3600 }, n \in 0..90 }

\* the current instant of a session whose frame is the fixture
Now == PlusDays(transactions[1].date.dt, 10)

BuildFixture ==
    /\ transactions = <<>>
    /\ \E now \in NowInputs : transactions' = sample_transactions(now)
    /\ UNCHANGED <<data, hasDateColumn, disk, hashSeed, ret>>

CallReportWithoutDate ==
    /\ transactions # <<>>
    /\ \/ \E category \in { Food, Fun, Missing } :
             CallDecorated("spending_by_category", <<category, NoneVal>>,
                 spending_by_category(transactions, category, NoneVal, Now))
       \/ CallDecorated("spending_by_weekday", <<NoneVal>>,
              spending_by_weekday(transactions, NoneVal, Now))
       \/ CallDecorated("spending_by_workday", <<NoneVal>>,
              spending_by_workday(transactions, NoneVal, Now))
    /\ UNCHANGED <<data, transactions, hasDateColumn, hashSeed>>

NextFixture ==
    \/ BuildFixture
    \/ CallReportWithoutDate

SpecFixture == InitMain /\ [][NextFixture]_vars

FoodCall ==
    /\ ret.fn = "spending_by_category"
    /\ ret.args[1] = Food
    /\ ret.value.raised = ""

\* the sum of the values of the rows of the result
ValuesSum ==
    SumOver([k \in 1..Len(ret.value.frame.rows) |-> ret.value.frame.rows[k][2].v],
            1..Len(ret.value.frame.rows))

\* the result is that of the frame without the record of now - 100 days
ExcludesOldest ==
    ret.value.frame =
        spending_by_category(SubSeq(transactions, 1, 4), Food, NoneVal, Now).frame

\* the calendar months of the records of now - 10, now - 20 and now - 70 days
FoodMonths == { PeriodOf(transactions[i]) : i \in { 1, 2, 4 } }

(***************************************************************************)
(* C16.  For every current instant 'now', spending_by_category with        *)
(* category Food and default anchor, applied to the five records dated     *)
(* now-10, now-20, now-40 (category Fun), now-70 and now-100 days with     *)
(* amounts -500, -300, -1000, -200, -100, excludes the now-100 record and  *)
(* returns exactly 2 monthly rows whose values sum to 1000.                *)
(***************************************************************************)
C16_Original ==
    FoodCall =>
        /\ ExcludesOldest
        /\ Len(ret.value.frame.rows) = 2
        /\ ValuesSum = 1000 * Scale

\* C16 as the code has it: one row per calendar month of the three Food
\* records of the window, which are 2 months when now - 10 and now - 20 days
\* are in the same month and 3 months otherwise; the values sum to 1000
C16_RowPerMonthOfTheWindow ==
    FoodCall =>
        /\ ExcludesOldest
        /\ Len(ret.value.frame.rows) = Cardinality(FoodMonths)
        /\ Len(ret.value.frame.rows) =
              (IF PeriodOf(transactions[1]) = PeriodOf(transactions[2]) THEN 2 ELSE 3)
        /\ ValuesSum = 1000 * Scale

\* on 15 March 2024 the three records are of March, February and January
C16_Witness ==
    /\ FoodCall
    /\ Now = MkDatetime(2024, 3, 15, 12 * 3600)
    /\ Len(ret.value.frame.rows) = 3

\* on 25 March 2024 the records of 15 and 5 March share a row
C16_TwoRowsWitness ==
    /\ FoodCall
    /\ Now = MkDatetime(2024, 3, 25, 12 * 3600)
    /\ Len(ret.value.frame.rows) = 2

(***************************************************************************)
(* Vocabulary of the claims about the two reports of means.                *)
(***************************************************************************)
WeekdayCall == ret.fn = "spending_by_weekday" /\ ret.value.raised = ""

WorkdayCall == ret.fn = "spending_by_workday" /\ ret.value.raised = ""

\* the records of the quarter, in the order of the frame
QuarterRecords == SelectSeq(transactions, InQuarter)

\* value is the arithmetic mean of |amount| over the records; a record
\* without amount has no |amount|, and the mean of no amount is NaN
IsMeanOfAbsolute(value, records) ==
    LET present == SelectSeq(records, LAMBDA r : r.amount.kind = "num")
    IN  IF present = <<>> THEN value.nan
        ELSE ~value.nan /\ value.v * Len(present) = SumOfAbsolute(present)

\* the rows have different keys
DistinctKeys(rows) ==
    \A j, k \in 1..Len(rows) : j # k => rows[j][1] # rows[k][1]

(***************************************************************************)
(* C17.  spending_by_weekday emits exactly one row per weekday on which at *)
(* least one in-window record falls (so at most 7 rows, and none for a     *)
(* weekday with no record), and each row's value is the arithmetic mean of *)
(* |amount| over that weekday's in-window records.                         *)
(***************************************************************************)
C17_MeanPerWeekdayPresent ==
    WeekdayCall =>
        LET rows == ret.value.frame.rows
        IN  /\ DistinctKeys(rows)
            /\ Len(rows) <= 7
            /\ { rows[k][1] : k \in 1..Len(rows) }
                 = { WeekdayNames[Weekday(QuarterRecords[i].date.dt) + 1] :
                       i \in 1..Len(QuarterRecords) }
            /\ \A k \in 1..Len(rows) :
                  IsMeanOfAbsolute(rows[k][2],
                      SelectSeq(QuarterRecords,
                          LAMBDA r : WeekdayNames[Weekday(r.date.dt) + 1] = rows[k][1]))

\* two records of the quarter fall on Saturdays and share the row of their
\* mean
C17_Witness ==
    /\ WeekdayCall
    /\ Len(QuarterRecords) = 2
    /\ \A i \in 1..2 : Weekday(QuarterRecords[i].date.dt) = 5
    /\ QuarterRecords[1].amount # QuarterRecords[2].amount
    /\ ret.value.frame.rows = << <<"Subbota", Fl(30 * Scale)>> >>

\* the day type the claim gives a record: Monday to Friday, or Saturday and
\* Sunday
IsRestDay(r) == Weekday(r.date.dt) \in { 5, 6 }

DayClass(r) == IF IsRestDay(r) THEN "Vykhodnoy" ELSE "Rabochiy"

(***************************************************************************)
(* C18.  spending_by_workday classifies every in-window record dated       *)
(* Monday to Friday as 'Рабочий' (workday) and every record dated Saturday *)
(* or Sunday as 'Выходной' (rest day), emits one row per class that has at *)
(* least one record (at most 2 rows), and each row's value is the          *)
(* arithmetic mean of |amount| over that class's records.                  *)
(***************************************************************************)
C18_MeanPerDayClass ==
    WorkdayCall =>
        LET rows == ret.value.frame.rows
        IN  /\ DistinctKeys(rows)
            /\ Len(rows) <= 2
            /\ { rows[k][1] : k \in 1..Len(rows) }
                 = { DayClass(QuarterRecords[i]) : i \in 1..Len(QuarterRecords) }
            /\ \A k \in 1..Len(rows) :
                  IsMeanOfAbsolute(rows[k][2],
                      SelectSeq(QuarterRecords, LAMBDA r : DayClass(r) = rows[k][1]))

\* a Saturday and a Friday of the quarter: one row for each class
C18_Witness ==
    /\ WorkdayCall
    /\ Len(QuarterRecords) = 2
    /\ \E i, j \in 1..2 :
          /\ Weekday(QuarterRecords[i].date.dt) = 5
          /\ Weekday(QuarterRecords[j].date.dt) = 4
    /\ Len(ret.value.frame.rows) = 2

\* two Saturdays: the one row of the rest days is their mean
C18_SharedClassWitness ==
    /\ WorkdayCall
    /\ Len(QuarterRecords) = 2
    /\ QuarterRecords[1].amount # QuarterRecords[2].amount
    /\ ret.value.frame.rows = << <<"Vykhodnoy", Fl(30 * Scale)>> >>

\* no record of the frame passes the filter of the call
NothingCounted == \A i \in 1..Len(transactions) : ~Counted(transactions[i])

(***************************************************************************)
(* C19.  When no record passes the trailing-quarter window filter (and,    *)
(* for spending_by_category, the category filter), each of the three       *)
(* report functions returns an empty table with zero rows, never a table   *)
(* containing a row whose value is 0.                                      *)
(***************************************************************************)
C19_EmptyTableWhenNothingPasses ==
    (ReportCall /\ NothingCounted) =>
        /\ ret.value.frame = EmptyDataFrame
        /\ ret.value.frame.rows = <<>>

\* spending_by_category finds a record of the quarter, of another category
C19_Witness ==
    /\ CategoryCall
    /\ transactions # <<>>
    /\ \E i \in 1..Len(transactions) : InQuarter(transactions[i])
    /\ NothingCounted
    /\ ret.value.frame.rows = <<>>

\* a report of means finds only records outside the quarter
C19_OutsideWitness ==
    /\ ReportCall
    /\ ret.fn # "spending_by_category"
    /\ transactions # <<>>
    /\ NothingCounted
    /\ ret.value.frame.rows = <<>>

(***************************************************************************)
(* simple_search called with any query on the caller's collection.  The    *)
(* queries are in the description 'Shop' or in a category of the records,  *)
(* in either case of letters, in no text at all, in str(None), or empty.   *)
(***************************************************************************)
QueryInputs ==
    { <<>>, <<"s", "h", "o", "p">>, <<"S", "H", "O", "P">>, <<"o", "o">>, <<"T", "A", "X", "I">>, <<"n", "o", "n">>, <<"N", "o", "n", "e">>, <<"x", "y", "z">> }

CallSimpleSearchQuery ==
    /\ \E search_query \in QueryInputs :
          ret' = Call("simple_search", <<search_query>>,
                      simple_search(data, search_query))
    /\ UNCHANGED <<data, transactions, hasDateColumn, disk, hashSeed>>

NextSearch ==
    \/ AddTransaction
    \/ CallSimpleSearchQuery

SpecSearch == Init /\ [][NextSearch]_vars

SearchCall == ret.fn = "simple_search"

\* the text of a field: a missing or null field has none
FieldText(v) == IF v.kind = "str" THEN v.s ELSE <<>>

\* q, compared case-insensitively, is a substring of the description or of
\* the category of the record
QueryIsIn(t, q) ==
    \/ Contains(lower(FieldText(t.description)), lower(q))
    \/ Contains(lower(FieldText(t.category)), lower(q))

NullField(t) == t.description.kind = "none" \/ t.category.kind = "none"

(***************************************************************************)
(* C20.  simple_search(ts, q) returns exactly the records of ts, in their  *)
(* original relative order, for which q compared case-insensitively is a   *)
(* substring of the record's description or of its category; a record     *)
(* whose description and category do not contain q is never returned,      *)
(* where a missing or null description or category contains no non-empty   *)
(* query; with q = '' every record is returned.  The code searches the     *)
(* text 'None' for a null field.                                           *)
(***************************************************************************)
C20_ExactlyTheMatchingRecords ==
    SearchCall =>
        /\ ret.value = SelectSeq(data, LAMBDA t : QueryIsIn(t, ret.args[1]))
        /\ ret.args[1] = <<>> => ret.value = data

\* what the code does on records whose description and category are texts
\* or missing
C20_WithoutNullFields ==
    (SearchCall /\ \A i \in 1..Len(data) : ~NullField(data[i]))
        => C20_ExactlyTheMatchingRecords

\* the second of two records is found by a query in capitals, the first is
\* not
C20_CaseReached ==
    /\ SearchCall
    /\ ret.args[1] = <<"T", "A", "X", "I">>
    /\ Len(data) = 2
    /\ ret.value = <<data[2]>>

\* a record without category is not found by 'non'
C20_MissingReached ==
    /\ SearchCall
    /\ ret.args[1] = <<"n", "o", "n">>
    /\ \E i \in 1..Len(data) : data[i].category.kind = "absent"
    /\ ret.value = <<>>

(***************************************************************************)
(* search_person_transfers on records of tests/test_services.py: transfer  *)
(* descriptions with and without a surname and initial, one of them with a *)
(* tab between the two, under the category of transfers and under others.  *)
(***************************************************************************)
TransferDescriptions ==
    { StrVal(<<"T", "r", "a", "n", "s", "f", "e", "r", " ", "I", "v", "a", "n", "o", "v", " ", "I", ".", "I", ".">>), StrVal(<<"T", "r", "a", "n", "s", "f", "e", "r", " ", "I", "v", "a", "n", "o", "v", " ", "I", "v", "a", "n">>),
      StrVal(<<"S", "i", "m", "p", "l", "e", " ", "t", "r", "a", "n", "s", "f", "e", "r">>), StrVal(<<"i", "v", "a", "n", "o", "v", " ", "I", ".">>),
      StrVal(<<"I", "v", "a", "n", "o", "v">> \o <<"\t">> \o <<"I", ".">>), NoneVal }

TransferCategories ==
    { StrVal(Transfers), StrVal(lower(Transfers)), StrVal(Food), NoneVal }

AddTransferRecord ==
    /\ Len(data) < MaxData
    /\ \E category \in TransferCategories, description \in TransferDescriptions :
          data' = Append(data, Txn(OctoberDate, SmallExpense, category, description))
    /\ ret' = NoCall
    /\ UNCHANGED <<transactions, hasDateColumn, disk, hashSeed>>

CallSearchTransfers ==
    /\ ret' = Call("search_person_transfers", <<>>, search_person_transfers(data))
    /\ UNCHANGED <<data, transactions, hasDateColumn, disk, hashSeed>>

NextTransfers ==
    \/ AddTransferRecord
    \/ CallSearchTransfers

SpecTransfers == Init /\ [][NextTransfers]_vars

TransfersCall == ret.fn = "search_person_transfers"

\* the text holds a capital letter and one or more small letters, then one
\* character of gaps, then a capital letter and a period
HasSurnameAndInitial(text, gaps) ==
    \E i, j \in 1..Len(text) :
        /\ i < j
        /\ j + 3 <= Len(text)
        /\ IsUpper(text[i])
        /\ \A k \in (i + 1)..j : text[k] \in Range(LowerLetters)
        /\ text[j + 1] \in gaps
        /\ IsUpper(text[j + 2])
        /\ text[j + 3] = "."

IsTransfer(t) == t.category = StrVal(Transfers)

NamesPerson(t, gaps) ==
    t.description.kind = "str" /\ HasSurnameAndInitial(t.description.s, gaps)

(***************************************************************************)
(* C21.  search_person_transfers returns exactly the records, in original  *)
(* relative order, whose category equals exactly 'Переводы' AND whose       *)
(* description contains a capitalised surname word followed by one space,  *)
(* one capital letter and a period; a record meeting only one of the two   *)
(* conditions is never returned.                                           *)
(***************************************************************************)
C21_Original ==
    TransfersCall =>
        ret.value = SelectSeq(data, LAMBDA t : IsTransfer(t) /\ NamesPerson(t, { " " }))

\* C21 as the code has it: the surname and the initial are separated by one
\* whitespace character (\s), a space or any other
C21_TransfersNamingAPerson ==
    TransfersCall =>
        ret.value = SelectSeq(data, LAMBDA t : IsTransfer(t) /\ NamesPerson(t, Whitespace))

\* of two transfers only the second names a person, and it is returned
C21_Witness ==
    /\ TransfersCall
    /\ Len(data) = 2
    /\ IsTransfer(data[1]) /\ ~NamesPerson(data[1], Whitespace)
    /\ IsTransfer(data[2]) /\ NamesPerson(data[2], { " " })
    /\ ret.value = <<data[2]>>

\* a record that names a person under another category is not returned
C21_OtherCategoryWitness ==
    /\ TransfersCall
    /\ \E i \in 1..Len(data) :
          ~IsTransfer(data[i]) /\ NamesPerson(data[i], { " " })
    /\ ret.value = <<>>

\* get_date_range was called with the period and a reference it accepts
AcceptedCall(period) ==
    /\ ret.fn = "get_date_range"
    /\ ret.args[2] = period
    /\ StrptimeIsoDatetime(ret.args[1]).ok

\* dt is the day of the calendar date year-month-day, at the time of day of d
IsDateAtTimeOf(dt, year, month, day, d) ==
    /\ YearOf(dt) = year
    /\ MonthOf(dt) = month
    /\ DayOf(dt) = day
    /\ SecOf(dt) = SecOf(d)

(***************************************************************************)
(* C22.  For every reference instant d, get_date_range(d, 'M') returns     *)
(* (d with its day set to 1, d) and get_date_range(d, 'Y') returns (d with *)
(* its month and day set to 1, d); in both cases the start keeps d's hour, *)
(* minute and second and the end is d itself.                              *)
(***************************************************************************)
C22_MonthAndYearStartAtDayOne ==
    /\ AcceptedCall("M") =>
          /\ ret.value.raised = ""
          /\ IsDateAtTimeOf(ret.value.start, YearOf(Reference), MonthOf(Reference),
                            1, Reference)
          /\ ret.value.end = Reference
    /\ AcceptedCall("Y") =>
          /\ ret.value.raised = ""
          /\ IsDateAtTimeOf(ret.value.start, YearOf(Reference), 1, 1, Reference)
          /\ ret.value.end = Reference

\* the month of a reference of 15 June at noon starts on 1 June at noon
C22_Witness ==
    /\ AcceptedCall("M")
    /\ Reference = MkDatetime(2023, 6, 15, 12 * 3600)
    /\ ret.value.start = MkDatetime(2023, 6, 1, 12 * 3600)

\* the year of a reference of 29 February 2024 starts on 1 January 2024
C22_YearWitness ==
    /\ AcceptedCall("Y")
    /\ Reference = MkDatetime(2024, 2, 29, 8 * 3600 + 30 * 60)
    /\ ret.value.start = MkDatetime(2024, 1, 1, 8 * 3600 + 30 * 60)

RecognisedPeriods == { "W", "M", "Y", "ALL" }

(***************************************************************************)
(* C23.  For every reference instant d and every period value other than   *)
(* 'W', 'M', 'Y' and 'ALL', get_date_range(d, period) returns exactly the  *)
(* same window as get_date_range(d, 'M') and raises no error.              *)
(***************************************************************************)
C23_UnrecognisedPeriodIsMonth ==
    (ret.fn = "get_date_range" /\ ret.args[2] \notin RecognisedPeriods) =>
        /\ ret.value = get_date_range(ret.args[1], "M")
        /\ StrptimeIsoDatetime(ret.args[1]).ok =>
              /\ ret.value.raised = ""
              /\ ret.value.end = Reference
              /\ DayOf(ret.value.start) = 1

\* the period 'w' in small letters is not the week: on a Thursday the
\* window starts on the first of the month
C23_Witness ==
    /\ ret.fn = "get_date_range"
    /\ ret.args[2] = "w"
    /\ Reference = MkDatetime(2023, 6, 15, 12 * 3600)
    /\ ret.value = Window(MkDatetime(2023, 6, 1, 12 * 3600), Reference)

\* the Sunday of the week of d is a day datetime can hold
WeekFits(d) == OrdOf(d) - Weekday(d) + 6 <= MaxOrdinal

\* start = d - d.weekday() days, end = start + 6 days, start <= d <= end
IsWeekOf(start_date, end_date, d) ==
    /\ start_date = PlusDays(d, -Weekday(d))
    /\ end_date = PlusDays(start_date, 6)
    /\ Weekday(start_date) = 0
    /\ Weekday(end_date) = 6
    /\ DtLe(start_date, d)
    /\ DtLe(d, end_date)

(***************************************************************************)
(* C24.  For every reference instant d, get_date_range(d, 'W') returns     *)
(* start = d minus d.weekday() days (the Monday of d's week, keeping d's   *)
(* time-of-day) and end = start + 6 days (the Sunday of that week at the   *)
(* same time-of-day), so that start <= d <= end.                           *)
(***************************************************************************)
C24_Original ==
    AcceptedCall("W") =>
        /\ ret.value.raised = ""
        /\ IsWeekOf(ret.value.start, ret.value.end, Reference)

\* C24 as the code has it: the week is returned when its Sunday is not after
\* 9999-12-31, and OverflowError is raised for the references of the last
\* five days of year 9999
C24_WeekWhenItFits ==
    AcceptedCall("W") =>
        IF WeekFits(Reference)
        THEN /\ ret.value.raised = ""
             /\ IsWeekOf(ret.value.start, ret.value.end, Reference)
        ELSE ret.value.raised = "OverflowError"

\* the reference is a Sunday: the week starts six days before it and ends
\* on it
C24_Witness ==
    /\ AcceptedCall("W")
    /\ ret.value.raised = ""
    /\ Weekday(Reference) = 6
    /\ OrdOf(Reference) - OrdOf(ret.value.start) = 6
    /\ ret.value.end = Reference

(***************************************************************************)
(* reports.py: report_decorator around any function, as the tests of       *)
(* tests/test_reports.py use it with one file.  What the wrapped function  *)
(* returned is [kind, frame, serializable]: a DataFrame (kind "frame") or  *)
(* another object (kind "object"), which json.dump can write or not.  A    *)
(* record stored for an object has no "_hash".  When json.dump raises, the *)
(* file, already opened for writing, is left with the text written so far, *)
(* which is no JSON.  open_fails stands for a call during which every      *)
(* open() raises.  The process may be restarted between calls, which       *)
(* changes the seed of hash() for strings unless PYTHONHASHSEED fixes it.  *)
(***************************************************************************)
MaxStored == 3

MaxSeed == 1

TestFile == "test_report.json"

FrameResult(frame) == [kind |-> "frame", frame |-> frame, serializable |-> TRUE]

ObjectResult(serializable) ==
    [kind |-> "object", frame |-> EmptyDataFrame, serializable |-> serializable]

InvalidFile == [kind |-> "invalid", records |-> <<>>]

NotListFile == [kind |-> "notlist", records |-> <<>>]

NoHash == [content |-> <<>>, seed |-> -1, salt |-> 0]

\* {"_timestamp": timestamp, "_report_type": func.__name__, "data": result}
new_record(func) ==
    [content |-> <<"data">>, timestamp |-> Timestamp, report_type |-> func,
     hash |-> NoHash]

\* the branch of a result that is no DataFrame: the file after the call.
\* json.load of a file that is no list gives an object to which a list
\* cannot be added (TypeError, caught by the outer handler)
wrapper_object(func, result, file) ==
    IF file.kind = "notlist" THEN file
    ELSE IF ~result.serializable THEN InvalidFile
    ELSE ListFile(combined_data(existing_data(file), <<new_record(func)>>))

\* a wrapper whose handler of the file errors is missing: the error of open()
\* reaches the caller
wrapper_call_Propagating(func, result, file, seed, open_fails) ==
    IF result.kind = "frame" /\ result.frame.rows = <<>>
    THEN [result |-> result, file |-> file]
    ELSE IF open_fails
         THEN [result |-> [kind |-> "raised", frame |-> EmptyDataFrame,
                          serializable |-> TRUE],
               file |-> file]
    ELSE IF result.kind = "frame"
         THEN [result |-> result,
               file |-> wrapper(func, result.frame, file, seed, 0).file]
    ELSE [result |-> result, file |-> wrapper_object(func, result, file)]

\* wrapper for any result: the value returned to the caller and the file
\* after the call
wrapper_call(func, result, file, seed, open_fails) ==
    IF result.kind = "frame" /\ result.frame.rows = <<>>
    THEN [result |-> result, file |-> file]
    ELSE IF open_fails THEN [result |-> result, file |-> file]
    ELSE IF result.kind = "frame"
         THEN [result |-> result,
               file |-> wrapper(func, result.frame, file, seed, 0).file]
    ELSE [result |-> result, file |-> wrapper_object(func, result, file)]

\* the frames of the tests: two different rows, alone, together, one twice
RowOne == <<"1", Fl(3 * Scale)>>

RowTwo == <<"2", Fl(4 * Scale)>>

TestFrames ==
    { EmptyDataFrame } \cup
    { DataFrame(<<"col1", "col2">>, rows) :
        rows \in { <<RowOne>>, <<RowTwo>>, <<RowOne, RowTwo>>, <<RowOne, RowOne>> } }

WrappedResults ==
    { FrameResult(frame) : frame \in TestFrames }
        \cup { ObjectResult(TRUE), ObjectResult(FALSE) }

InitDecorator ==
    /\ data = <<>>
    /\ transactions = <<>>
    /\ hasDateColumn = TRUE
    /\ disk \in { [f \in { TestFile } |-> file] :
                    file \in { AbsentFile, InvalidFile, NotListFile } }
    /\ hashSeed = 0
    /\ ret = NoCall

CallWrapped ==
    /\ Len(disk[TestFile].records) < MaxStored
    /\ \E result \in WrappedResults, open_fails \in BOOLEAN :
          LET out == wrapper_call("test_func", result, disk[TestFile], hashSeed,
                                  open_fails)
          IN  /\ ret' = Call("test_func", <<result, open_fails>>, out.result)
              /\ disk' = [disk EXCEPT ![TestFile] = out.file]
    /\ UNCHANGED <<data, transactions, hasDateColumn, hashSeed>>

\* the interpreter is started again
Restart ==
    /\ \E seed \in 0..MaxSeed :
          /\ seed # hashSeed
          /\ hashSeed' = seed
    /\ ret' = NoCall
    /\ UNCHANGED <<data, transactions, hasDateColumn, disk>>

NextDecorator ==
    \/ CallWrapped
    \/ Restart

SpecDecorator == InitDecorator /\ [][NextDecorator]_vars

(***************************************************************************)
(* C25.  With avoid_duplicates=True a decorated call whose returned rows   *)
(* are all stored in the report file already leaves the record list as it  *)
(* was, and a call appends a row only if no stored record has the same     *)
(* content (the fields whose name does not start with "_").                *)
(***************************************************************************)
WrappedFrameStep == ret'.fn = "test_func" /\ ret'.args[1].kind = "frame"

\* the content of the record of a row of the returned frame
RowContent(frame, i) == <<frame.columns, frame.rows[i]>>

HasContent(records, content) ==
    \E j \in 1..Len(records) : records[j].content = content

AllRowsStored(frame, records) ==
    \A i \in 1..Len(frame.rows) : HasContent(records, RowContent(frame, i))

AppendedOnlyNewContent(old, new) ==
    /\ IsPrefix(old, new)
    /\ \A i \in (Len(old) + 1)..Len(new) : ~HasContent(old, new[i].content)

C25_AppendedOnlyIfContentNotStored ==
    [][WrappedFrameStep =>
         LET old == disk[TestFile].records
             new == disk'[TestFile].records
             frame == ret'.args[1].frame
         IN  /\ AllRowsStored(frame, old) => new = old
             /\ AppendedOnlyNewContent(old, new)]_vars

\* the hash of every stored record was computed by the running process
StoredByThisProcess ==
    \A j \in 1..Len(disk[TestFile].records) :
        disk[TestFile].records[j].hash # NoHash
            => disk[TestFile].records[j].hash.seed = hashSeed

\* as long as the process that stored the records is the one that calls, the
\* rows stored already are not appended again
C25_WithinOneProcess ==
    [][(WrappedFrameStep /\ StoredByThisProcess) =>
         LET old == disk[TestFile].records
             new == disk'[TestFile].records
             frame == ret'.args[1].frame
         IN  /\ AllRowsStored(frame, old) => new = old
             /\ AppendedOnlyNewContent(old, new)]_vars

\* a row was stored by a call of the running process and the same frame is
\* returned again: nothing is appended
C25_SkippedReached ==
    /\ ret.fn = "test_func"
    /\ ret.args[1].kind = "frame"
    /\ ret.args[1].frame.rows # <<>>
    /\ ~ret.args[2]
    /\ StoredByThisProcess
    /\ disk[TestFile].kind = "list"
    /\ Len(disk[TestFile].records) = 1
    /\ hashSeed = 1

(***************************************************************************)
(* C26.  A function wrapped by report_decorator returns exactly the value  *)
(* the wrapped function returned, whether the file was created, appended   *)
(* to, left alone for an empty or a stored result, or could not be read or *)
(* written; no error of reading or writing the file reaches the caller.    *)
(***************************************************************************)
WrappedCall == ret.fn = "test_func"

C26_ReturnsTheResultOfTheFunction ==
    WrappedCall => ret.value = ret.args[1]

\* every open() of the call failed, the file that is no list is as it was,
\* and the caller has the object the function returned
C26_Witness ==
    /\ WrappedCall
    /\ ret.args[2]
    /\ ret.args[1] = ObjectResult(TRUE)
    /\ disk[TestFile] = NotListFile
    /\ ret.value = ObjectResult(TRUE)

\* json.dump failed on the object the function returned
C26_WriteErrorWitness ==
    /\ WrappedCall
    /\ ~ret.args[2]
    /\ ret.args[1] = ObjectResult(FALSE)
    /\ disk[TestFile] = InvalidFile
    /\ ret.value = ObjectResult(FALSE)

(***************************************************************************)
(* C27.  When the report file holds invalid JSON, or JSON that is no list, *)
(* report_decorator takes the stored content as empty, and after the call  *)
(* the file holds the list of exactly the new record or records, for a     *)
(* DataFrame as for any other result.  The calls meant are the ones that   *)
(* have something to write and can write it: the result is not an empty    *)
(* DataFrame, json.dump accepts it and open() succeeds.                    *)
(***************************************************************************)
\* the step is a call that stores its result
StoringStep ==
    /\ ret'.fn = "test_func"
    /\ ~ret'.args[2]
    /\ ret'.args[1].serializable
    /\ ~(ret'.args[1].kind = "frame" /\ ret'.args[1].frame.rows = <<>>)

\* the records of the result of the step
RecordsOfStep ==
    IF ret'.args[1].kind = "frame"
    THEN new_records(ret'.args[1].frame, "test_func", hashSeed, 0)
    ELSE <<new_record("test_func")>>

HoldsExactlyTheNewRecords == disk'[TestFile] = ListFile(RecordsOfStep)

C27_UnusableContentIsReplaced ==
    [][(StoringStep /\ disk[TestFile].kind \in { "invalid", "notlist" })
          => HoldsExactlyTheNewRecords]_vars

\* what holds: invalid JSON is replaced for every result, JSON that is no
\* list is replaced for a DataFrame
C27_ReplacedUnlessObjectOnNonList ==
    [][(/\ StoringStep
        /\ \/ disk[TestFile].kind = "invalid"
           \/ disk[TestFile].kind = "notlist" /\ ret'.args[1].kind = "frame")
          => HoldsExactlyTheNewRecords]_vars

\* the file that was no JSON holds the one record of the returned object
C27_InvalidReplacedReached ==
    /\ WrappedCall
    /\ ret.args[1] = ObjectResult(TRUE)
    /\ disk[TestFile] = ListFile(<<new_record("test_func")>>)

(***************************************************************************)
(* C28.  Over any sequence of calls of wrapped functions on a report file  *)
(* that holds a valid JSON list the file is append-only: after every call  *)
(* the records stored before it are still there, unchanged and in the same *)
(* order, as a prefix of the stored list, whose length never decreases.    *)
(***************************************************************************)
StoredRecordsKept ==
    /\ disk'[TestFile].kind = "list"
    /\ IsPrefix(disk[TestFile].records, disk'[TestFile].records)
    /\ Len(disk'[TestFile].records) >= Len(disk[TestFile].records)

C28_AppendOnly ==
    [][disk[TestFile].kind = "list" => StoredRecordsKept]_vars

\* what holds: the calls whose result json.dump can write keep the records
C28_AppendOnlyForWritableResults ==
    [][(disk[TestFile].kind = "list" /\ ret'.fn = "test_func"
            /\ ret'.args[1].serializable) => StoredRecordsKept]_vars

\* records were stored, then a call returned an object json.dump cannot
\* write, and the file is no JSON any more
C28_LostReached ==
    /\ WrappedCall
    /\ ret.args[1] = ObjectResult(FALSE)
    /\ ~ret.args[2]
    /\ disk[TestFile] = InvalidFile
    /\ hashSeed = 1

(***************************************************************************)
(* C29.  With avoid_duplicates=True and a report file written only by      *)
(* calls that returned DataFrames, the file never holds two records with   *)
(* the same content hash ("_hash"), whatever rows the DataFrames have.     *)
(***************************************************************************)
\* every stored record is the record of a row of a DataFrame
OnlyRecordsOfFrames(records) ==
    \A i \in 1..Len(records) : records[i].hash # NoHash

NoHashTwice(records) ==
    \A i, j \in 1..Len(records) : i # j => records[i].hash # records[j].hash

C29_NoTwoRecordsWithTheSameHash ==
    (disk[TestFile].kind = "list" /\ OnlyRecordsOfFrames(disk[TestFile].records))
        => NoHashTwice(disk[TestFile].records)

DistinctRows(frame) ==
    \A i, j \in 1..Len(frame.rows) : i # j => frame.rows[i] # frame.rows[j]

\* what holds: a call whose DataFrame has no row twice adds no second
\* record of a hash
C29_KeptByFramesOfDistinctRows ==
    [][(/\ WrappedFrameStep
        /\ DistinctRows(ret'.args[1].frame)
        /\ NoHashTwice(disk[TestFile].records))
          => NoHashTwice(disk'[TestFile].records)]_vars

\* the first call on a new file returned a DataFrame with the same row
\* twice, and both records are stored
C29_SameRowTwiceReached ==
    /\ WrappedCall
    /\ ret.args[1].kind = "frame"
    /\ ~DistinctRows(ret.args[1].frame)
    /\ disk[TestFile].kind = "list"
    /\ Len(disk[TestFile].records) = 2
    /\ disk[TestFile].records[1] = disk[TestFile].records[2]

(***************************************************************************)
(* C30.  In events_page_data the values of expenses.main_categories (the   *)
(* top categories and 'Остальное' when present) add up to the sum of       *)
(* |amount| over all expense records of the window, the amount that        *)
(* expenses.total reports before rounding: no expense is lost from the     *)
(* breakdown and none is counted twice.                                    *)
(***************************************************************************)
\* the rows of the period with an amount < 0, with a category or without
WindowExpenses ==
    LET w == get_date_range(ret.args[1], ret.args[2])
    IN  { i \in 1..Len(transactions) :
            /\ InWindow(transactions[i], w.start, w.end)
            /\ transactions[i].amount.kind = "num"
            /\ transactions[i].amount.num < 0 }

total_expenses_value ==
    SumOver([i \in 1..Len(transactions) |-> Abs(transactions[i].amount.num)],
            WindowExpenses)

BreakdownSum ==
    DictSum(ret.value.expenses.main_categories,
            DOMAIN ret.value.expenses.main_categories)

C30_BreakdownAddsUpToTotal ==
    EventsCall => BreakdownSum = Fl(total_expenses_value)

\* what holds: every expense has a category and no category is named as the
\* entry of the remainder
C30_WhenEveryExpenseHasACategory ==
    (/\ EventsCall
     /\ WindowExpenses = CategoryExpenses
     /\ SyntheticCategory \notin ExpenseCategories)
        => BreakdownSum = Fl(total_expenses_value)

\* more than 7 categories with a remainder, and the breakdown adds up
C30_AddsUpReached ==
    /\ EventsCall
    /\ WindowExpenses = CategoryExpenses
    /\ Cardinality(ExpenseCategories) > TopCategories
    /\ SyntheticCategory \notin ExpenseCategories
    /\ BreakdownSum = Fl(total_expenses_value)

\* an expense without a category is in the total and in no entry
C30_LostReached ==
    /\ EventsCall
    /\ WindowExpenses # CategoryExpenses
    /\ SyntheticCategory \notin ExpenseCategories
    /\ FLt(BreakdownSum, Fl(total_expenses_value))

====
